---------------------------- MODULE Spec2Model ----------------------------
(***************************************************************************)
(* A model of the wgsl-linker core: reference traversal (traverseRefs),    *)
(* the matching lexer's matcher stack, source maps, parseModule, the       *)
(* globalVar grammar, srcLine and the old module registry.                 *)
(*                                                                         *)
(* The specifications share the variables: SpecTrav and FairTrav           *)
(* (traversal), SpecLex (lexer), SpecMap and SpecCompact (source maps),    *)
(* SpecModule (parseModule), SpecGrammar (globalVar, typeSpecifier),       *)
(* SpecLine (srcLine), SpecRegistry (ModuleRegistryOld).  Each leaves the  *)
(* other subsystems' variables at their idle values.                       *)
(***************************************************************************)
EXTENDS Integers, Sequences, FiniteSets, TLC

VARIABLES
  \* ---- traversal ----
  root,       \* the root module handed to traverseRefs (input)
  on,         \* the reference edges present in the parsed modules (input)
  visitor,    \* which visit callback the caller passed (input)
  pc,         \* position in traverseRefs: "seed", "run", "done"
  seedIdx,    \* index of the next root ref to hand to the callback
  stack,      \* the active recursiveRefs calls, innermost last
  delivered,  \* every call of the visit callback, in order
  seen,       \* traverseRefs' set of refFullNames
  diags,      \* the 'reference not found' diagnostics logged, in order
  elemRef,    \* the ref back-pointer of every call / typeRef element
  refObj,     \* which FoundRef object each back-pointer holds (history)
  expanded,   \* every call of elemRefs, in order (history)
  nbatch,     \* number of ref batches produced so far (history)
  \* ---- lexer ----
  lx,         \* the matchingLexer closure state
  calls,      \* the withMatcher / withIgnore calls in progress, innermost last
  lastCall,   \* the most recently finished withMatcher / withIgnore call
  \* ---- source maps ----
  sm,         \* the source-map scenario and the results of its operations
  \* ---- module parsing ----
  pm,         \* parseModule: the unnamed-module counter and the last call's result
  gp,         \* the grammar: the source handed to a parser, the parser and its result
  \* ---- logging and the old registry ----
  sl,         \* srcLine: the line-start cache and the last call's result
  reg         \* ModuleRegistryOld: the exports registered, by name

travVars == <<root, on, visitor, pc, seedIdx, stack, delivered, seen, diags, elemRef,
              refObj, expanded, nbatch>>
lexVars == <<lx, calls, lastCall>>
mapVars == <<sm>>
parseVars == <<pm, gp>>
miscVars == <<sl, reg>>
vars == <<travVars, lexVars, mapVars, parseVars, miscVars>>

(***************************************************************************)
(* Generic helpers                                                         *)
(***************************************************************************)
None == <<>>
Some(x) == <<x>>



\* Array.prototype.find, given what the test says of each element: the index
\* of the first element that passes, 0 if none does
FindIndex(passes) ==
  IF \E i \in 1..Len(passes) : passes[i]
  THEN CHOOSE i \in 1..Len(passes) : passes[i] /\ \A j \in 1..(i - 1) : ~passes[j]
  ELSE 0

(***************************************************************************)
(* The parsed registry: four modules.  Declarations, imports and exports   *)
(* are fixed; which calls and type references the elements contain is the  *)
(* input, a subset of Toggles.                                             *)
(***************************************************************************)
TextModules == {"main", "m1", "m2", "empty"}
RootModules == {"main", "empty"}
GeneratorModules == {"gen"}

ModuleKind(m) == IF m \in GeneratorModules THEN "generator" ELSE "text"

Toggles == {"fg", "fh", "ff", "fzz", "SS", "ST", "gsup", "gh", "hg", "gP"}

\* name and kind of every top-level element, keyed by an element id
ElemIds == {"main.S", "main.v", "main.f", "main.g", "main.A",
            "m1.g", "m1.sup", "m1.T",
            "m2.h", "m2.hS", "m2.U", "m2.Ua", "m2.W", "m2.w"}

ElemTable ==
  [e \in ElemIds |->
    CASE e = "main.S"  -> [mod |-> "main", kind |-> "struct", name |-> "S"]
      [] e = "main.v"  -> [mod |-> "main", kind |-> "var",    name |-> "v"]
      [] e = "main.f"  -> [mod |-> "main", kind |-> "fn",     name |-> "f"]
      [] e = "main.g"  -> [mod |-> "main", kind |-> "fn",     name |-> "g"]
      [] e = "main.A"  -> [mod |-> "main", kind |-> "alias",  name |-> "A"]
      [] e = "m1.g"    -> [mod |-> "m1",   kind |-> "fn",     name |-> "g"]
      [] e = "m1.sup"  -> [mod |-> "m1",   kind |-> "fn",     name |-> "sup"]
      [] e = "m1.T"    -> [mod |-> "m1",   kind |-> "struct", name |-> "T"]
      [] e = "m2.h"    -> [mod |-> "m2",   kind |-> "fn",     name |-> "h"]
      [] e = "m2.hS"   -> [mod |-> "m2",   kind |-> "struct", name |-> "h"]
      [] e = "m2.U"    -> [mod |-> "m2",   kind |-> "struct", name |-> "U"]
      [] e = "m2.Ua"   -> [mod |-> "m2",   kind |-> "alias",  name |-> "U"]
      [] e = "m2.W"    -> [mod |-> "m2",   kind |-> "alias",  name |-> "W"]
      [] e = "m2.w"    -> [mod |-> "m2",   kind |-> "var",    name |-> "w"]]

ElemName(e) == ElemTable[e].name
ElemKind(e) == ElemTable[e].kind

\* TextModule: the element lists of a module, in source order
TextModule(m) ==
  CASE m = "main" -> [name |-> "main", structs |-> <<"main.S">>, vars |-> <<"main.v">>,
                      fns |-> <<"main.f", "main.g">>, aliases |-> <<"main.A">>]
    [] m = "m1"   -> [name |-> "m1", structs |-> <<"m1.T">>, vars |-> <<>>,
                      fns |-> <<"m1.g", "m1.sup">>, aliases |-> <<>>]
    [] m = "m2"   -> [name |-> "m2", structs |-> <<"m2.hS", "m2.U">>, vars |-> <<"m2.w">>,
                      fns |-> <<"m2.h">>, aliases |-> <<"m2.Ua", "m2.W">>]
    [] m = "empty" -> [name |-> "empty", structs |-> <<>>, vars |-> <<>>,
                       fns |-> <<>>, aliases |-> <<>>]

\* TreeImportElem of each module: leaf name, 'as' name ("" if none), exporting
\* module and import arguments
ModImports(m) ==
  CASE m = "main" -> << [name |-> "g",  as |-> "",   from |-> "m1",  args |-> <<"u32">>],
                        [name |-> "h",  as |-> "",   from |-> "m2",  args |-> <<"i32", "f32">>],
                        [name |-> "T",  as |-> "",   from |-> "m1",  args |-> <<"i32", "f32">>],
                        [name |-> "U",  as |-> "UU", from |-> "m2",  args |-> <<>>],
                        [name |-> "gf", as |-> "",   from |-> "gen", args |-> <<>>] >>
    [] m = "m1"   -> << [name |-> "h",  as |-> "",   from |-> "m2",  args |-> <<>>],
                        [name |-> "U",  as |-> "",   from |-> "m2",  args |-> <<>>] >>
    [] m = "m2"   -> << [name |-> "g",  as |-> "",   from |-> "m1",  args |-> <<"f32">>] >>
    [] m = "empty" -> <<>>

\* exports of each module: TextExport (ExportElem args + ref) or GeneratorExport
ModExports(m) ==
  CASE m \in {"main", "empty"} -> <<>>
    [] m = "m1"   -> << [name |-> "g", ref |-> "m1.g", args |-> <<"P">>],
                        [name |-> "T", ref |-> "m1.T", args |-> <<"A", "B">>] >>
    [] m = "m2"   -> << [name |-> "h", ref |-> "m2.h", args |-> <<>>],
                        [name |-> "U", ref |-> "m2.U", args |-> <<"Q">>] >>
    [] m = "gen"  -> << [name |-> "gf", ref |-> "-", args |-> <<>>] >>

\* the potential call elements of each fn: name and the toggle that enables it
CallTable(e) ==
  CASE e = "main.f" -> << [name |-> "g",   tag |-> "fg"],
                          [name |-> "h",   tag |-> "fh"],
                          [name |-> "f",   tag |-> "ff"],
                          [name |-> "zz",  tag |-> "fzz"],
                          [name |-> "gf",  tag |-> "fh"],
                          [name |-> "UU",  tag |-> "ff"],
                          [name |-> "min", tag |-> "always"] >>
    [] e = "main.g" -> << [name |-> "f",   tag |-> "always"] >>
    [] e = "m1.g"   -> << [name |-> "sup", tag |-> "gsup"],
                          [name |-> "P",   tag |-> "gP"],
                          [name |-> "h",   tag |-> "gh"] >>
    [] e = "m1.sup" -> << [name |-> "g",   tag |-> "always"] >>
    [] e = "m2.h"   -> << [name |-> "g",   tag |-> "hg"],
                          [name |-> "vec3", tag |-> "always"] >>
    [] OTHER        -> <<>>

\* the potential type references of each fn, var, alias and struct member
TypeRefTable(e) ==
  CASE e = "main.S" -> << [name |-> "S",   tag |-> "SS"],
                          [name |-> "T",   tag |-> "ST"],
                          [name |-> "u32", tag |-> "always"] >>
    [] e = "main.v" -> << [name |-> "UU",  tag |-> "always"] >>
    [] e = "main.f" -> << [name |-> "S",   tag |-> "SS"] >>
    [] e = "main.A" -> << [name |-> "S",   tag |-> "always"] >>
    [] e = "m1.g"   -> << [name |-> "P",   tag |-> "gP"],
                          [name |-> "T",   tag |-> "gsup"] >>
    [] e = "m1.sup" -> << [name |-> "P",   tag |-> "gP"] >>
    [] e = "m1.T"   -> << [name |-> "U",   tag |-> "always"] >>
    [] e = "m2.h"   -> << [name |-> "h",   tag |-> "always"],
                          [name |-> "U",   tag |-> "always"],
                          [name |-> "W",   tag |-> "always"],
                          [name |-> "w",   tag |-> "always"] >>
    [] OTHER        -> <<>>

EdgeOn(entry, t) == entry.tag = "always" \/ entry.tag \in t

\* CallElem / TypeRefElem children of element e when the edges t are present
MkChildren(e, kind, entries) ==
  [i \in 1..Len(entries) |-> [kind |-> kind, name |-> entries[i].name, owner |-> e]]

ElemCalls(e, t) ==
  MkChildren(e, "call", SelectSeq(CallTable(e), LAMBDA entry : EdgeOn(entry, t)))

\* elem.typeRefs, or for a struct elem.members.flatMap(m => m.typeRefs)
ElemTypeRefList(e, t) ==
  MkChildren(e, "typeRef", SelectSeq(TypeRefTable(e), LAMBDA entry : EdgeOn(entry, t)))

Site(child) == <<child.owner, child.kind, child.name>>

AllSites ==
  UNION {{<<e, "call", CallTable(e)[i].name>> : i \in 1..Len(CallTable(e))}
           \cup {<<e, "typeRef", TypeRefTable(e)[i].name>> : i \in 1..Len(TypeRefTable(e))}
         : e \in ElemIds}


(***************************************************************************)
(* Builtin names                                                           *)
(***************************************************************************)
stdFns ==
  {"bitcast", "all", "any", "select", "arrayLength", "abs", "acos", "acosh",
   "asin", "asinh", "atan", "atanh", "atan2", "ceil", "clamp", "cos",
   "cosh", "countLeadingZeros", "countOneBits", "countTrailingZeros",
   "cross", "degrees", "determinant", "distance", "dot", "dot4UI8Packed",
   "dot4I8Packed", "exp", "exp2", "extractBits", "faceForward",
   "firstLeadingBit", "firstTrailingBit", "floor", "fma", "fract", "frexp",
   "inserBits", "inverseSqrt", "ldexp", "length", "log", "log2", "max",
   "min", "mix", "modf", "normalize", "pow", "quantizeToF16", "radians",
   "reflect", "refract", "reverseBits", "round", "saturate", "sign", "sin",
   "sinh", "smoothstep", "sqrt", "step", "tan", "tanh", "transpose",
   "trunc", "dpdx", "dpdxCoarse", "dpdxFine", "dpdy", "dpdyCoarse",
   "dpdyFine", "fwidth", "fwdithCoarse", "fwidthFine", "textureDimensions",
   "textureGather", "textureGatherCompare", "textureLoad",
   "textureNumLayers", "textureNumLevels", "textureNumSamples",
   "textureSample", "textureSampleBias", "textureSampleCompare",
   "textureSampleCompareLevel", "textureSampleGrad", "textureSampleLevel",
   "textureSampleBaseClampToEdge", "textureStore", "atomicLoad",
   "atomicStore", "atomicAdd", "atomicSub", "atomicMax", "atomicMin",
   "atomicOr", "atomicXor", "atomicExchange", "atomicCompareExchangeWeak",
   "pack4x8snorm", "pack4x8unorm", "pack4xI8", "pack4xU8", "pack4xI8Clamp",
   "pack4xU8Clamp", "pack2x16snorm", "pack2x16unorm", "pack2x16float",
   "unpack4x8snorm", "unpack4x8unorm", "unpack4xI8", "unpack4xU8",
   "unpack2x16snorm", "unpack2x16unorm", "unpack2x16float",
   "storageBarrier", "textureBarrier", "workgroupBarrier",
   "workgroupUniformLoad", ""}

stdTypes ==
  {"array", "atomic", "bool", "f16", "f32", "i32", "mat2x2", "mat2x3",
   "mat2x4", "mat3x2", "mat3x3", "mat3x4", "mat4x2", "mat4x3", "mat4x4",
   "mat2x2f", "mat2x3f", "mat2x4f", "mat3x2f", "mat3x3f", "mat3x4f",
   "mat4x2f", "mat4x3f", "mat4x4f", "mat2x2h", "mat2x3h", "mat2x4h",
   "mat3x2h", "mat3x3h", "mat3x4h", "mat4x2h", "mat4x3h", "mat4x4h", "u32",
   "vec2", "vec3", "vec4", "ptr", "vec2i", "vec3i", "vec4i", "vec2u",
   "vec3u", "vec4u", "vec2f", "vec3f", "vec4f", "vec2h", "vec3h", "vec4h",
   "texture_1d", "texture_2d", "texture_2d_array", "texture_3d",
   "texture_cube", "texture_cube_array", "texture_multisampled_2d",
   "texture_depth_multisampled_2d", "texture_external",
   "texture_storage_1d", "texture_storage_2d", "texture_storage_2d_array",
   "texture_storage_3d", "texture_depth_2d", "texture_depth_2d_array",
   "texture_depth_cube", "texture_depth_cube_array", "sampler",
   "sampler_comparison", "rgba8unorm", "rgba8snorm", "rgba8uint",
   "rgba8sint", "rgba16uint", "rgba16sint", "rgba16float", "r32uint",
   "r32sint", "r32float", "rg32uint", "rg32sint", "rg32float", "rgba32uint",
   "rgba32sint", "rgba32float", "bgra8unorm", "function", ""}

\* return true if the name is for a built in type (not a user struct)
StdType(name) == name \in stdTypes

\* variant of stdFn that leaves out the builtin type names
StdFnOnly(name) == name \in stdFns

\* return true if the name is for a built in fn (not a user function)
StdFn(name) == name \in stdFns \/ StdType(name)

(***************************************************************************)
(* FoundRef values.  A TextRef has elem, a GeneratorRef has name; expInfo  *)
(* is None or Some(ExportInfo).                                            *)
(***************************************************************************)
TextRefOf(expMod, elem, proposedName, expInfo) ==
  [kind |-> "txt", expMod |-> expMod, elem |-> elem, name |-> "-",
   proposedName |-> proposedName, expInfo |-> expInfo]

GeneratorRefOf(expMod, name, proposedName, expInfo) ==
  [kind |-> "gen", expMod |-> expMod, elem |-> "-", name |-> name,
   proposedName |-> proposedName, expInfo |-> expInfo]

RefName(ref) == IF ref.kind = "gen" THEN ref.name ELSE ElemName(ref.elem)

ExpImpArgsOf(ref) == IF ref.expInfo = None THEN <<>> ELSE ref.expInfo[1].expImpArgs

\* the exporting module's path, the element name and the import arguments
RefFullName(ref) == <<ref.expMod, RefName(ref), ExpImpArgsOf(ref)>>

TextRef(ref) == ref.kind # "gen"

TextRefs(refs) == SelectSeq(refs, TextRef)

(***************************************************************************)
(* Name lookup                                                             *)
(***************************************************************************)
ImportName(imp) == IF imp.as # "" THEN imp.as ELSE imp.name

\* variant of matchImportExportArgs with the pairs the other way round
MatchImportExportArgsSwapped(imp, exp) ==
  [i \in 1..Len(exp.args) |->
     <<IF i <= Len(imp.args) THEN imp.args[i] ELSE "undefined", exp.args[i]>>]

\* pairs [export parameter, import argument], one per export parameter
MatchImportExportArgs(imp, exp) ==
  [i \in 1..Len(exp.args) |->
     <<exp.args[i], IF i <= Len(imp.args) THEN imp.args[i] ELSE "undefined">>]

\* if (expArgs.length !== impArgs.length) console.error(...)
ArgsMismatch(imp, exp) == Len(exp.args) # Len(imp.args)

\* first(a ?? b): a unless it is undefined
OrElse(a, b) == IF a # None THEN a ELSE b

ExportAt(name, imp, exps, j) ==
  IF j = 0 THEN None
  ELSE Some([module |-> imp.from, exp |-> exps[j], callSegments |-> <<name>>,
             expImpArgs |-> MatchImportExportArgs(imp, exps[j])])

ExportOf(name, imp) ==
  ExportAt(name, imp, ModExports(imp.from),
           FindIndex([j \in 1..Len(ModExports(imp.from)) |->
                        ModExports(imp.from)[j].name = imp.name]))

ResolveAt(name, imps, i) == IF i = 0 THEN None ELSE ExportOf(name, imps[i])

\* the export that the import of impMod named `name` (leaf or alias) resolves to
ResolveImport(name, impMod) ==
  ResolveAt(name, ModImports(impMod),
            FindIndex([i \in 1..Len(ModImports(impMod)) |->
                         ImportName(ModImports(impMod)[i]) = name]))

\* whether resolving `name` in impMod matches an import with an export whose
\* parameter count differs, which logs the mismatch
ResolveLogs(name, impMod) ==
  /\ ResolveImport(name, impMod) # None
  /\ \E i \in 1..Len(ModImports(impMod)) :
        /\ ImportName(ModImports(impMod)[i]) = name
        /\ \A k \in 1..(i - 1) : ImportName(ModImports(impMod)[k]) # name
        /\ ArgsMismatch(ModImports(impMod)[i], ResolveImport(name, impMod)[1].exp)

\* true if the ref is to an import parameter
ImportArgRef(srcRef, name) ==
  /\ srcRef.expInfo # None
  /\ \E i \in 1..Len(srcRef.expInfo[1].expImpArgs) :
        srcRef.expInfo[1].expImpArgs[i][1] = name

ExportInfoOf(fromRef, impMod, r) ==
  [fromImport |-> ModImports(impMod)[1], fromRef |-> fromRef,
   expImpArgs |-> r.expImpArgs]

\* variant of importRef that knows only the text modules
ImportRefTextOnly(fromRef, impMod, r) ==
  IF ModuleKind(r.module) = "text"
  THEN Some(TextRefOf(r.module, r.exp.ref, r.callSegments[Len(r.callSegments)],
                      Some(ExportInfoOf(fromRef, impMod, r))))
  ELSE None

ImportRefTo(fromRef, impMod, r) ==
  IF ModuleKind(r.module) = "text"
  THEN Some(TextRefOf(r.module, r.exp.ref, r.callSegments[Len(r.callSegments)],
                      Some(ExportInfoOf(fromRef, impMod, r))))
  ELSE Some(GeneratorRefOf(r.module, r.exp.name, r.callSegments[Len(r.callSegments)],
                           Some(ExportInfoOf(fromRef, impMod, r))))

ImportRefOf(fromRef, impMod, resolved) ==
  IF resolved = None THEN None ELSE ImportRefTo(fromRef, impMod, resolved[1])

\* resolved = resolveImport(name, resolveMap)
ImportRef(fromRef, name, impMod) ==
  CHOOSE ref \in {ImportRefOf(fromRef, impMod, resolved) :
                    resolved \in {ResolveImport(name, impMod)}} : TRUE

\* Array.prototype.find over a list of element ids, by name
FindNamedAt(ids, i) == IF i = 0 THEN None ELSE Some(ids[i])

FindNamed(ids, name) ==
  FindNamedAt(ids, FindIndex([i \in 1..Len(ids) |-> ElemName(ids[i]) = name]))

\* variant of localRef that looks at structs before fns
LocalElemStructsFirst(m, name) ==
  OrElse(FindNamed(m.structs, name),
         OrElse(FindNamed(m.fns, name), FindNamed(m.aliases, name)))

LocalElem(m, name) ==
  OrElse(FindNamed(m.fns, name),
         OrElse(FindNamed(m.structs, name), FindNamed(m.aliases, name)))

LocalRefOf(mod, elem) ==
  IF elem = None THEN None
  ELSE Some(TextRefOf(mod, elem[1], ElemName(elem[1]), None))

LocalRef(name, mod) == LocalRefOf(mod, LocalElem(TextModule(mod), name))

\* What the lookups of an element's children produce, in order: one outcome
\* per lookup that found a ref (returned, and set as the child's ref) or logged
\* a diagnostic
NoRefs == <<>>

NotFound(elem, srcRef) ==
  [mod |-> srcRef.expMod, site |-> Site(elem), msg |-> "reference not found",
   name |-> elem.name]

\* console.error("mismatched import and export params", imp, exp)
Mismatched(elem, mod) ==
  [mod |-> mod, site |-> Site(elem), msg |-> "mismatched import and export params",
   name |-> elem.name]

\* variant of linkedRef that stays silent about a name it cannot find
LinkedSilently(elem, srcRef, foundRef) ==
  IF foundRef # None
  THEN << [found |-> foundRef, site |-> Site(elem), bind |-> TRUE,
           log |-> FALSE, diag |-> NotFound(elem, srcRef)] >>
  ELSE NoRefs

Linked(elem, srcRef, foundRef) ==
  IF foundRef # None
  THEN << [found |-> foundRef, site |-> Site(elem),
           bind |-> elem.kind \in {"typeRef", "call"},
           log |-> FALSE, diag |-> NotFound(elem, srcRef)] >>
  ELSE << [found |-> None, site |-> Site(elem), bind |-> FALSE,
           log |-> TRUE, diag |-> NotFound(elem, srcRef)] >>

\* the outcome of a lookup whose import was resolved while the mismatch
\* message was logged
WithMismatch(outcome, elem, mod, logged) ==
  IF logged /\ outcome # NoRefs
  THEN << [outcome[1] EXCEPT !.log = TRUE, !.diag = Mismatched(elem, mod)] >>
  ELSE outcome

\* foundRef = importRef(...) ?? localRef(...)
LinkedRef(elem, srcRef, mod) ==
  IF ImportArgRef(srcRef, elem.name) THEN NoRefs
  ELSE CHOOSE outcome \in
         {WithMismatch(Linked(elem, srcRef, foundRef), elem, mod,
                       ResolveLogs(elem.name, mod)) :
            foundRef \in {OrElse(ImportRef(srcRef, elem.name, mod),
                                 LocalRef(elem.name, mod))}} : TRUE

\* the refs returned, the diagnostics logged
RefsOf(res) ==
  [i \in 1..Len(SelectSeq(res, LAMBDA o : o.found # None)) |->
     SelectSeq(res, LAMBDA o : o.found # None)[i].found[1]]

DiagsOf(res) ==
  [i \in 1..Len(SelectSeq(res, LAMBDA o : o.log)) |->
     SelectSeq(res, LAMBDA o : o.log)[i].diag]

RECURSIVE FlatTo(_, _)
\* Array.prototype.flat / flatMap over the first n results
FlatTo(seqs, n) == IF n = 0 THEN <<>> ELSE FlatTo(seqs, n - 1) \o seqs[n]

ElemChildrenRefs(srcRef, children, mod) ==
  FlatTo([i \in 1..Len(children) |-> LinkedRef(children[i], srcRef, mod)],
         Len(children))

\* return type references from an element
ElemTypeRefs(elem, t) ==
  SelectSeq(ElemTypeRefList(elem, t), LAMBDA r : ~StdType(r.name))

\* variant of the call filter that keeps a fn's calls to itself
UserCallsWithSelf(elem, t) ==
  SelectSeq(ElemCalls(elem, t), LAMBDA c : ~StdFn(c.name))

UserCalls(elem, t) ==
  SelectSeq(ElemCalls(elem, t),
            LAMBDA c : ~StdFn(c.name) /\ c.name # ElemName(elem))

\* return all struct/fn/alias refs from a src element
ElemRefs(srcRef, mod, t) ==
  CHOOSE refs \in
    {ElemChildrenRefs(srcRef, fnRefs, mod) \o ElemChildrenRefs(srcRef, typeRefs, mod) :
       fnRefs \in {IF ElemKind(srcRef.elem) = "fn"
                   THEN UserCalls(srcRef.elem, t) ELSE <<>>},
       typeRefs \in {ElemTypeRefs(srcRef.elem, t)}} : TRUE

\* refs.flatMap(r => elemRefs(r, mod, registry)), with its side effects
ElemRefsAll(refs, mod, t) ==
  FlatTo([i \in 1..Len(refs) |-> ElemRefs(refs[i], mod, t)], Len(refs))

RECURSIVE GroupBy(_)
\* groupBy(refs, r => r.expMod): the groups in order of first appearance
GroupBy(refs) ==
  IF refs = <<>> THEN <<>>
  ELSE LET m == Head(refs).expMod
       IN <<SelectSeq(refs, LAMBDA r : r.expMod = m)>>
            \o GroupBy(SelectSeq(refs, LAMBDA r : r.expMod # m))


(***************************************************************************)
(* traverseRefs as a state machine                                         *)
(***************************************************************************)
Visitors == {"all", "none", "dedup"}

\* what the caller's visit callback returns for ref, having been handed the
\* refs in `before`: always true, always false, or true for a name it has
\* not been handed yet
VisitReturn(v, ref, before) ==
  CASE v = "all"   -> TRUE
    [] v = "none"  -> FALSE
    [] v = "dedup" -> \A i \in 1..Len(before) :
                         RefFullName(before[i].ref) # RefFullName(ref)

\* variant of the root refs that starts with the fns
SrcRefsFnsFirst(srcModule) ==
  LET m == TextModule(srcModule)
      elems == m.fns \o m.structs \o m.vars \o m.aliases
  IN [i \in 1..Len(elems) |->
        TextRefOf(srcModule, elems[i], ElemName(elems[i]), None)]

\* the root refs: one TextRef per struct, var, fn, alias of the src module
SrcRefs(srcModule) ==
  LET m == TextModule(srcModule)
      elems == m.structs \o m.vars \o m.fns \o m.aliases
  IN [i \in 1..Len(elems) |->
        TextRefOf(srcModule, elems[i], ElemName(elems[i]), None)]

\* variant of unseen that forgets what it has seen
UnseenForgetful(ref, seenNames) == TRUE

Unseen(ref, seenNames) == RefFullName(ref) \notin seenNames

\* variant of eachRef that returns what the callback returned
EachRefByVisitor(ref, ret, seenNames) == ret

\* variant of eachRef that keeps an unseen ref only if the callback says so
EachRefBoth(ref, ret, seenNames) == ret /\ Unseen(ref, seenNames)

\* eachRef's result for a ref whose callback returned ret
EachRef(ref, ret, seenNames) == Unseen(ref, seenNames)

\* a recursiveRefs call: its refs, the next one to filter, the refs kept so
\* far and the next module group to descend into
Frame(refs, batch, srcMod) ==
  [refs |-> refs, i |-> 1, filtered |-> <<>>, g |-> 1, batch |-> batch,
   srcMod |-> srcMod]

Top == stack[Len(stack)]

SetTop(f) == [stack EXCEPT ![Len(stack)] = f]

LastBind(old, binds) ==
  IF binds = <<>> THEN old ELSE binds[Len(binds)].found

\* elem.ref = foundRef for every ref found, in order: the last one stays
ApplyBinds(refs, res) ==
  [s \in DOMAIN refs |->
     LastBind(refs[s], SelectSeq(res, LAMBDA o : o.bind /\ o.site = s))]

\* one call of the visit callback: the ref, what the callback returned, the
\* recursiveRefs depth and batch it was made in (0 for the root refs), and
\* whether traverseRefs kept the ref to look for its children
\* a FoundRef is a new object at every lookup that finds one: the object is
\* named by the batch of child refs it is returned in and its index there
ObjAt(res, k, batch) ==
  Some(<<batch, Len(SelectSeq(SubSeq(res, 1, k), LAMBDA o : o.found # None))>>)

\* elem.ref = foundRef, by object: the object of the last lookup stays
ApplyObjs(objs, res, batch) ==
  [s \in DOMAIN objs |->
     IF \E k \in 1..Len(res) : res[k].bind /\ res[k].site = s
     THEN ObjAt(res, CHOOSE k \in 1..Len(res) :
                       /\ res[k].bind /\ res[k].site = s
                       /\ \A j \in (k + 1)..Len(res) : ~(res[j].bind /\ res[j].site = s),
                batch)
     ELSE objs[s]]

Delivery(ref, ret, depth, batch, kept) ==
  [ref |-> ref, ret |-> ret, depth |-> depth, batch |-> batch, kept |-> kept]

Expansion(refs, batch) ==
  [i \in 1..Len(refs) |-> [ref |-> refs[i], batch |-> batch]]

\* the value of the lexer / source-map variables while that subsystem is unused
LexIdle == [none |-> TRUE]
MapIdle == [none |-> TRUE]
ParseIdle == [none |-> TRUE]

InitTrav ==
  /\ root \in RootModules
  /\ on \in (IF root = "main" THEN SUBSET Toggles ELSE {{}})
  /\ visitor \in Visitors
  /\ pc = "seed"
  /\ seedIdx = 1
  /\ stack = <<>>
  /\ delivered = <<>>
  /\ seen = {}
  /\ diags = <<>>
  /\ elemRef = [s \in AllSites |-> None]
  /\ refObj = [s \in AllSites |-> None]
  /\ expanded = <<>>
  /\ nbatch = 0
  /\ lx = LexIdle
  /\ calls = <<>>
  /\ lastCall = LexIdle
  /\ sm = MapIdle
  /\ pm = ParseIdle
  /\ gp = ParseIdle
  /\ sl = ParseIdle
  /\ reg = ParseIdle

\* srcRefs.forEach(ref => fn(ref)), one ref at a time
VisitSeedRef(ref) ==
  delivered' = Append(delivered,
                      Delivery(ref, VisitReturn(visitor, ref, delivered), 0, 0, TRUE))

VisitSeed ==
  /\ pc = "seed"
  /\ seedIdx <= Len(SrcRefs(root))
  /\ \E ref \in {SrcRefs(root)[seedIdx]} : VisitSeedRef(ref)
  /\ seedIdx' = seedIdx + 1
  /\ UNCHANGED <<root, on, visitor, pc, stack, seen, diags, elemRef, refObj, expanded, nbatch, lexVars, mapVars, parseVars, miscVars>>

\* if (!srcRefs.length) return
NoSeeds ==
  /\ pc = "seed"
  /\ seedIdx > Len(SrcRefs(root))
  /\ Len(SrcRefs(root)) = 0
  /\ pc' = "done"
  /\ UNCHANGED <<root, on, visitor, seedIdx, stack, delivered, seen, diags, elemRef, refObj,
                 expanded, nbatch, lexVars, mapVars, parseVars, miscVars>>

\* the effects of elemRefs on a group of refs of module mod, followed by the
\* entry into recursiveRefs with the child refs
Descend(refs, mod, res, outer, batch) ==
  /\ elemRef' = ApplyBinds(elemRef, res)
  /\ refObj' = ApplyObjs(refObj, res, nbatch + 1)
  /\ diags' = diags \o DiagsOf(res)
  /\ expanded' = expanded \o Expansion(refs, batch)
  /\ stack' = Append(outer, Frame(RefsOf(res), nbatch + 1, mod))
  /\ nbatch' = nbatch + 1

DescendInto(refs, mod, outer, batch) ==
  \E res \in {ElemRefsAll(refs, mod, on)} : Descend(refs, mod, res, outer, batch)

\* the child refs of the root elements, and the first recursiveRefs call
ExpandSeeds ==
  /\ pc = "seed"
  /\ seedIdx > Len(SrcRefs(root))
  /\ Len(SrcRefs(root)) > 0
  /\ \E refs \in {TextRefs(SrcRefs(root))} : DescendInto(refs, root, <<>>, 0)
  /\ pc' = "run"
  /\ UNCHANGED <<root, on, visitor, seedIdx, delivered, seen, lexVars, mapVars, parseVars, miscVars>>

\* refs.filter(r => fn(r)) with fn = eachRef, one ref at a time
VisitRef(f, ref, ret) ==
  /\ delivered' = Append(delivered, Delivery(ref, ret, Len(stack), f.batch,
                                          EachRef(ref, ret, seen)))
  /\ seen' = IF Unseen(ref, seen) THEN seen \cup {RefFullName(ref)} ELSE seen
  /\ stack' = SetTop([f EXCEPT !.i = @ + 1,
                               !.filtered = IF EachRef(ref, ret, seen)
                                            THEN Append(@, ref) ELSE @])

Visit ==
  /\ pc = "run"
  /\ Top.i <= Len(Top.refs)
  /\ \E f \in {Top} :
       \E ret \in {VisitReturn(visitor, f.refs[f.i], delivered)} :
          VisitRef(f, f.refs[f.i], ret)
  /\ UNCHANGED <<root, on, visitor, pc, seedIdx, diags, elemRef, refObj, expanded, nbatch, lexVars, mapVars, parseVars, miscVars>>

\* variant of the grouping that keeps the refs of all modules together
ModGroupsTogether(f) ==
  IF TextRefs(f.filtered) = <<>> THEN <<>> ELSE <<TextRefs(f.filtered)>>

\* nonGenRefs grouped by exporting module
ModGroups(f) == GroupBy(TextRefs(f.filtered))

\* variant of the descent that looks the children up in the root module
ExpandGroupInRoot(f, refs) ==
  DescendInto(refs, root, SetTop([f EXCEPT !.g = @ + 1]), f.batch)

\* one iteration of the forEach over the module groups: the group's child
\* refs are computed and recursiveRefs is entered with them
ExpandGroup(f, refs) ==
  DescendInto(refs, refs[1].expMod, SetTop([f EXCEPT !.g = @ + 1]), f.batch)

Expand ==
  /\ pc = "run"
  /\ Top.i > Len(Top.refs)
  /\ Top.g <= Len(ModGroups(Top))
  /\ \E f \in {Top} : \E refs \in {ModGroups(f)[f.g]} : ExpandGroup(f, refs)
  /\ UNCHANGED <<root, on, visitor, pc, seedIdx, delivered, seen, lexVars, mapVars, parseVars, miscVars>>

\* a recursiveRefs call returns
Return ==
  /\ pc = "run"
  /\ Top.i > Len(Top.refs)
  /\ Top.g > Len(ModGroups(Top))
  /\ stack' = SubSeq(stack, 1, Len(stack) - 1)
  /\ pc' = IF Len(stack) = 1 THEN "done" ELSE "run"
  /\ UNCHANGED <<root, on, visitor, seedIdx, delivered, seen, diags, elemRef, refObj,
                 expanded, nbatch, lexVars, mapVars, parseVars, miscVars>>

NextTrav == VisitSeed \/ NoSeeds \/ ExpandSeeds \/ Visit \/ Expand \/ Return

SpecTrav == InitTrav /\ [][NextTrav]_vars

\* the edges that close a cycle: main.f -> m1.g -> m2.h -> m1.g, m1.g ->
\* m1.sup -> m1.g, main.f -> main.f and struct S -> S
CycleToggles == {"fg", "gh", "hg", "gsup", "ff", "SS"}

\* the registries whose optional edges are those of the cycles
InitCycles ==
  /\ root \in RootModules
  /\ on \in (IF root = "main" THEN SUBSET CycleToggles ELSE {{}})
  /\ visitor \in Visitors
  /\ pc = "seed"
  /\ seedIdx = 1
  /\ stack = <<>>
  /\ delivered = <<>>
  /\ seen = {}
  /\ diags = <<>>
  /\ elemRef = [s \in AllSites |-> None]
  /\ refObj = [s \in AllSites |-> None]
  /\ expanded = <<>>
  /\ nbatch = 0
  /\ lx = LexIdle
  /\ calls = <<>>
  /\ lastCall = LexIdle
  /\ sm = MapIdle
  /\ pm = ParseIdle
  /\ gp = ParseIdle
  /\ sl = ParseIdle
  /\ reg = ParseIdle

\* traverseRefs runs to completion: every step that can be taken is taken
FairTrav == InitCycles /\ [][NextTrav]_vars /\ WF_vars(NextTrav)

TravDone == pc = "done"

(***************************************************************************)
(* Properties of traverseRefs                                              *)
(***************************************************************************)
DeliveredIdx == 1..Len(delivered)

ExpandedIdx == 1..Len(expanded)

FullNameAt(i) == RefFullName(delivered[i].ref)

\* the refs found through calls and type references (not the root refs)
Found(i) == delivered[i].depth > 0

\* every refFullName a traversal of this registry can come across
AllFullNames ==
  {<<ElemTable[e].mod, ElemName(e), <<>>>> : e \in ElemIds}
    \cup UNION {{<<ModImports(m)[i].from, ModImports(m)[i].name,
                    ExportOf(ImportName(ModImports(m)[i]), ModImports(m)[i])[1].expImpArgs>>
                  : i \in {k \in 1..Len(ModImports(m)) :
                             ExportOf(ImportName(ModImports(m)[k]), ModImports(m)[k]) # None}}
                : m \in TextModules}

\* the seen set only grows over a finite set of names, and every expansion
\* after the root's pays for itself with a name newly added to it
ExpansionsPaid ==
  /\ seen \subseteq AllFullNames
  /\ Len(expanded) <= Len(SrcRefs(root)) + Cardinality(seen)

\* C1: traverseRefs halts on every finite module graph, cycles of calls or
\* of type references within and across modules included, whatever the visit
\* callback returns: under fair scheduling of its steps it reaches its end,
\* and the number of expansions never exceeds the root elements plus the
\* finitely many names seen.
C1_Halts == <>TravDone /\ []ExpansionsPaid

\* a finished traversal that went round a cycle across modules (main.f -> m1.g
\* -> m2.h -> m1.g) with a callback that always returns true
C1_Witness ==
  /\ TravDone
  /\ visitor = "all"
  /\ {"fg", "gh", "hg", "gsup"} \subseteq on
  /\ \E i \in DeliveredIdx : delivered[i].depth >= 3

\* C2 as stated: the visit callback is invoked at most once per distinct
\* refFullName, root refs and found refs together.
C2_VisitOncePerName ==
  \A i, j \in DeliveredIdx : i # j => FullNameAt(i) # FullNameAt(j)

\* C2: each distinct refFullName is expanded at most once by recursiveRefs;
\* the callback itself is invoked for every ref found, before the seen check,
\* and the root refs are never entered in the seen set.
C2_ExpandOncePerName ==
  \A i, j \in ExpandedIdx :
     (i # j /\ expanded[i].batch > 0 /\ expanded[j].batch > 0)
       => RefFullName(expanded[i].ref) # RefFullName(expanded[j].ref)

\* a finished traversal in which the callback got one name twice among the
\* found refs, and that name was expanded
C2_Witness ==
  /\ TravDone
  /\ \E i, j \in DeliveredIdx :
        /\ i < j /\ Found(i) /\ Found(j)
        /\ FullNameAt(i) = FullNameAt(j)
        /\ \E k \in ExpandedIdx : /\ expanded[k].batch > 0
                                  /\ expanded[k].ref = delivered[i].ref

\* the call elements of element e that name no builtin function
NamedCalls(e) == SelectSeq(ElemCalls(e, on), LAMBDA c : ~StdFn(c.name))

\* the call's ref is set, to an element of that name or to one imported under
\* that name through an 'as' rename
CallBound(c, r) ==
  /\ r # None
  /\ \/ RefName(r[1]) = c.name
     \/ \E i \in 1..Len(ModImports(ElemTable[c.owner].mod)) :
           /\ ModImports(ElemTable[c.owner].mod)[i].as = c.name
           /\ ModImports(ElemTable[c.owner].mod)[i].name = RefName(r[1])
           /\ ModImports(ElemTable[c.owner].mod)[i].from = r[1].expMod

Diagnosed(site) ==
  \E k \in 1..Len(diags) :
     diags[k].site = site /\ diags[k].msg = "reference not found"

C4_VisitorDecides ==
  \A i \in DeliveredIdx :
     delivered[i].ref.kind = "txt" => (delivered[i].kept <=> delivered[i].ret)

\* C4: the return value of the visit callback is ignored.  The root refs are
\* always expanded; a found ref is kept exactly when no found ref of the same
\* refFullName was delivered before it; and the elements expanded are the
\* kept refs to text elements.
C4_SeenDecides ==
  /\ \A i \in DeliveredIdx :
        IF Found(i)
        THEN delivered[i].kept <=>
               \A j \in 1..(i - 1) : Found(j) => FullNameAt(j) # FullNameAt(i)
        ELSE delivered[i].kept
  /\ TravDone =>
        /\ \A i \in DeliveredIdx :
              (delivered[i].kept /\ delivered[i].ref.kind = "txt")
                => \E k \in ExpandedIdx : expanded[k].ref = delivered[i].ref
        /\ Len(expanded) =
              Cardinality({i \in DeliveredIdx :
                             delivered[i].kept /\ delivered[i].ref.kind = "txt"})

\* a finished traversal whose callback returned false for a found ref that
\* was expanded all the same
C4_Witness ==
  /\ TravDone
  /\ \E i \in DeliveredIdx :
        /\ Found(i) /\ ~delivered[i].ret /\ delivered[i].kept
        /\ \E k \in ExpandedIdx : /\ expanded[k].batch > 0
                                  /\ expanded[k].ref = delivered[i].ref

\* the module of the element in which a found ref was found
SourceMod(ref) ==
  IF ref.expInfo = None THEN ref.expMod ELSE ref.expInfo[1].fromRef.expMod

\* C5 as stated: the traversal is breadth-first, grouped by exporting
\* module: every ref of one wave is delivered before any ref of a deeper
\* wave, and within a wave the refs of one module are contiguous.
C5_WaveOrder ==
  \A i, j \in DeliveredIdx :
     (i < j /\ Found(i)) =>
       /\ delivered[i].depth <= delivered[j].depth
       /\ \A k \in DeliveredIdx :
             (j < k /\ delivered[i].ref.expMod = delivered[k].ref.expMod)
               => delivered[j].ref.expMod = delivered[i].ref.expMod

\* C5: the refs found from the elements of one module group form a batch.
\* A batch is delivered contiguously, all its refs were found in elements of
\* one module, and a ref found through an import is delivered only after the
\* whole batch of the ref it was found from.  The groups of a batch are
\* descended into one after the other, depth first, so a deeper batch of an
\* earlier group precedes the batch of a later group.
C5_BatchOrder ==
  /\ \A i, k \in DeliveredIdx :
        (i < k /\ delivered[i].batch = delivered[k].batch)
          => delivered[i + 1].batch = delivered[i].batch
  /\ \A i, j \in DeliveredIdx :
        (Found(i) /\ delivered[i].batch = delivered[j].batch)
          => SourceMod(delivered[i].ref) = SourceMod(delivered[j].ref)
  /\ \A i \in DeliveredIdx :
        (Found(i) /\ delivered[i].ref.expInfo # None)
          => \E j \in 1..(i - 1) :
                /\ delivered[j].ref = delivered[i].ref.expInfo[1].fromRef
                /\ \A k \in DeliveredIdx :
                      delivered[k].batch = delivered[j].batch => k < i

\* a finished traversal that delivered a batch of two refs, and a deeper ref
\* before a shallower one
C5_Witness ==
  /\ TravDone
  /\ \E i, j \in DeliveredIdx :
        /\ i < j /\ Found(j)
        /\ delivered[i].depth > delivered[j].depth
  /\ \E i, j \in DeliveredIdx :
        /\ i < j /\ Found(i)
        /\ delivered[i].batch = delivered[j].batch
        /\ delivered[i].ref.expMod # delivered[j].ref.expMod

\* the child elements present in element e
Children(e) == ElemCalls(e, on) \o ElemTypeRefList(e, on)

\* the children that elemRefs hands to linkedRef
LookedUp(c) ==
  IF c.kind = "call"
  THEN ElemKind(c.owner) = "fn" /\ ~StdFn(c.name) /\ c.name # ElemName(c.owner)
  ELSE ~StdType(c.name)

\* the element was expanded at least once / at least once through a ref
\* that has no import parameter of that name
ExpandedElem(e) == \E k \in ExpandedIdx : expanded[k].ref.elem = e

ExpandedPlainly(e, n) ==
  \E k \in ExpandedIdx :
     expanded[k].ref.elem = e /\ ~ImportArgRef(expanded[k].ref, n)

ImportsNamed(m, n) ==
  {i \in 1..Len(ModImports(m)) : ImportName(ModImports(m)[i]) = n}

DeclsNamed(ids, n) == {i \in 1..Len(ids) : ElemName(ids[i]) = n}

\* the ref is to what the first import of module m named n exports
IsImportOf(r, m, n) ==
  /\ r # None
  /\ r[1].expInfo # None
  /\ \E i \in ImportsNamed(m, n) :
        /\ \A j \in ImportsNamed(m, n) : i <= j
        /\ r[1].expMod = ModImports(m)[i].from
        /\ RefName(r[1]) = ModImports(m)[i].name

\* the ref is to the first of the local declarations ids named n
IsLocal(r, m, ids, n) ==
  /\ r # None
  /\ r[1].expInfo = None
  /\ r[1].expMod = m
  /\ \E i \in DeclsNamed(ids, n) :
        /\ \A j \in DeclsNamed(ids, n) : i <= j
        /\ r[1].elem = ids[i]

\* the outcome the precedence rule prescribes for name n looked up in module
\* m: r is the ref that was set, d tells whether a diagnostic was logged
ByPrecedence(r, d, m, n) ==
  IF ImportsNamed(m, n) # {} THEN IsImportOf(r, m, n) /\ ~d
  ELSE IF DeclsNamed(TextModule(m).fns, n) # {}
       THEN IsLocal(r, m, TextModule(m).fns, n) /\ ~d
  ELSE IF DeclsNamed(TextModule(m).structs, n) # {}
       THEN IsLocal(r, m, TextModule(m).structs, n) /\ ~d
  ELSE IF DeclsNamed(TextModule(m).aliases, n) # {}
       THEN IsLocal(r, m, TextModule(m).aliases, n) /\ ~d
  ELSE r = None /\ d

\* C9 as stated: a name is looked up among the imports first, then the fns,
\* the structs and the aliases of the module; otherwise there is no ref and
\* a 'reference not found' diagnostic.  Vars are no targets.
C9_Precedence ==
  TravDone =>
    \A e \in ElemIds :
       ExpandedElem(e) =>
         \A k \in 1..Len(Children(e)) :
            LookedUp(Children(e)[k]) =>
              ByPrecedence(elemRef[Site(Children(e)[k])],
                           Diagnosed(Site(Children(e)[k])),
                           ElemTable[e].mod, Children(e)[k].name)

\* C9: a name that is an export parameter of the import through which the
\* element was reached is not looked up at all: no ref, no diagnostic.  Any
\* other name is looked up among the imports first, then the fns, the
\* structs and the aliases of the module; otherwise there is no ref and a
\* 'reference not found' diagnostic.  Vars are no targets.
C9_PrecedenceAfterParams ==
  TravDone =>
    \A e \in ElemIds :
       ExpandedElem(e) =>
         \A k \in 1..Len(Children(e)) :
            LookedUp(Children(e)[k]) =>
              IF ExpandedPlainly(e, Children(e)[k].name)
              THEN ByPrecedence(elemRef[Site(Children(e)[k])],
                                Diagnosed(Site(Children(e)[k])),
                                ElemTable[e].mod, Children(e)[k].name)
              ELSE /\ elemRef[Site(Children(e)[k])] = None
                   /\ ~Diagnosed(Site(Children(e)[k]))

\* a finished traversal that looked up: g in main, which has an import and a
\* fn of that name; h in m2, which has a fn and a struct of that name; U in
\* m2, a struct and an alias; w in m2, only a var; and P in m1.g, reached
\* through an import with export parameter P
C9_Witness ==
  /\ TravDone
  /\ elemRef[<<"main.f", "call", "g">>] # None
  /\ elemRef[<<"main.f", "call", "g">>][1].expMod = "m1"
  /\ elemRef[<<"m2.h", "typeRef", "h">>] # None
  /\ elemRef[<<"m2.h", "typeRef", "h">>][1].elem = "m2.h"
  /\ elemRef[<<"m2.h", "typeRef", "U">>] # None
  /\ elemRef[<<"m2.h", "typeRef", "U">>][1].elem = "m2.U"
  /\ Diagnosed(<<"m2.h", "typeRef", "w">>)
  /\ "gP" \in on
  /\ ExpandedElem("m1.g")
  /\ ~ExpandedPlainly("m1.g", "P")

\* C10 as stated: a call or type reference that cannot be resolved gets
\* exactly one 'reference not found' diagnostic and its ref stays unset.
C10_OneDiagnostic ==
  TravDone =>
    \A s \in AllSites :
       Diagnosed(s) =>
         /\ Cardinality({k \in 1..Len(diags) : diags[k].site = s}) = 1
         /\ elemRef[s] = None

\* the children named after a builtin: a call whose name is in the builtin
\* function or the builtin type list, a type reference whose name is in the
\* builtin type list
Builtin(c) ==
  IF c.kind = "call" THEN c.name \in (stdFns \cup stdTypes) ELSE c.name \in stdTypes

\* C11: a call named after a builtin function or type, and a type reference
\* named after a builtin type, is never looked up: its ref stays unset, no
\* 'reference not found' diagnostic is logged for it, and no ref of that
\* name is handed to the callback.
C11_BuiltinsSkipped ==
  \A e \in ElemIds :
     \A k \in 1..Len(Children(e)) :
        Builtin(Children(e)[k]) =>
          /\ elemRef[Site(Children(e)[k])] = None
          /\ ~Diagnosed(Site(Children(e)[k]))
          /\ \A i \in DeliveredIdx :
                delivered[i].ref.proposedName # Children(e)[k].name

\* a finished traversal that expanded main.f, which calls min, m2.h, which
\* calls vec3, and struct main.S, which has a member of type u32
C11_Witness ==
  /\ TravDone
  /\ ExpandedElem("main.f")
  /\ ExpandedElem("m2.h")
  /\ ExpandedElem("main.S")
  /\ \E k \in 1..Len(Children("m2.h")) : Children("m2.h")[k].name = "vec3"
  /\ Diagnosed(<<"m2.h", "typeRef", "w">>)

\* the first import of module m named n is of a generator module
GeneratorImport(m, n) ==
  \E i \in ImportsNamed(m, n) :
     /\ \A j \in ImportsNamed(m, n) : i <= j
     /\ ModImports(m)[i].from \in GeneratorModules

\* C12: a ref to an export of a generator module is handed to the callback
\* and traversal ends there: it is never expanded and no ref is found from
\* it, whatever the callback returns.
C12_GeneratorRefsEndTraversal ==
  /\ \A k \in ExpandedIdx : expanded[k].ref.kind # "gen"
  /\ \A i \in DeliveredIdx :
        delivered[i].ref.expInfo # None
          => delivered[i].ref.expInfo[1].fromRef.kind # "gen"
  /\ TravDone =>
        \A e \in ElemIds :
           ExpandedElem(e) =>
             \A k \in 1..Len(Children(e)) :
                (/\ LookedUp(Children(e)[k])
                 /\ ExpandedPlainly(e, Children(e)[k].name)
                 /\ GeneratorImport(ElemTable[e].mod, Children(e)[k].name))
                  => /\ elemRef[Site(Children(e)[k])] # None
                     /\ elemRef[Site(Children(e)[k])][1].kind = "gen"
                     /\ \E i \in DeliveredIdx :
                           delivered[i].ref = elemRef[Site(Children(e)[k])][1]

\* a finished traversal whose callback returned true for a generator ref
\* that traverseRefs kept, and that delivered refs after it
C12_Witness ==
  /\ TravDone
  /\ \E i \in DeliveredIdx :
        /\ delivered[i].ref.kind = "gen"
        /\ delivered[i].ret
        /\ delivered[i].kept
        /\ i < Len(delivered)

\* the place of an element's kind in the order of the root refs
KindRank(e) ==
  CASE ElemKind(e) = "struct" -> 1
    [] ElemKind(e) = "var"    -> 2
    [] ElemKind(e) = "fn"     -> 3
    [] ElemKind(e) = "alias"  -> 4

\* the top-level declarations of module m, and the place of one in the
\* source order of the declarations of its kind
TopLevel(m) == {e \in ElemIds : ElemTable[e].mod = m}

DeclList(m, e) ==
  CASE ElemKind(e) = "struct" -> TextModule(m).structs
    [] ElemKind(e) = "var"    -> TextModule(m).vars
    [] ElemKind(e) = "fn"     -> TextModule(m).fns
    [] ElemKind(e) = "alias"  -> TextModule(m).aliases

SourceOrder(m, e) == CHOOSE i \in 1..Len(DeclList(m, e)) : DeclList(m, e)[i] = e

\* the calls of the callback made for the root refs
SeedIdx == {i \in DeliveredIdx : ~Found(i)}

\* C13: the callback is first invoked for the top-level declarations of the
\* root module: exactly once each, the structs, then the vars, the fns and
\* the aliases, each kind in source order, as a text ref of the root module
\* with proposedName the element's name and no expInfo; every ref found
\* through a call or a type reference comes after all of them; a root module
\* without declarations delivers nothing.
C13_SeedsFirst ==
  /\ \A i \in SeedIdx :
        /\ delivered[i].ref.kind = "txt"
        /\ delivered[i].ref.expMod = root
        /\ delivered[i].ref.elem \in TopLevel(root)
        /\ delivered[i].ref.proposedName = ElemName(delivered[i].ref.elem)
        /\ delivered[i].ref.expInfo = None
  /\ \A i, j \in SeedIdx :
        i < j =>
          /\ delivered[i].ref.elem # delivered[j].ref.elem
          /\ KindRank(delivered[i].ref.elem) <= KindRank(delivered[j].ref.elem)
          /\ KindRank(delivered[i].ref.elem) = KindRank(delivered[j].ref.elem)
               => SourceOrder(root, delivered[i].ref.elem)
                    < SourceOrder(root, delivered[j].ref.elem)
  /\ \A i, j \in DeliveredIdx : (Found(i) /\ ~Found(j)) => j < i
  /\ (\E i \in DeliveredIdx : Found(i))
        => \A e \in TopLevel(root) : \E i \in SeedIdx : delivered[i].ref.elem = e
  /\ TravDone =>
        /\ \A e \in TopLevel(root) : \E i \in SeedIdx : delivered[i].ref.elem = e
        /\ TopLevel(root) = {} => delivered = <<>>

\* a finished traversal of the root module with declarations of all four
\* kinds, two of them fns, that also delivered a found ref to a root element
C13_Witness ==
  /\ TravDone
  /\ root = "main"
  /\ Cardinality(SeedIdx) = 5
  /\ \E i \in DeliveredIdx : Found(i) /\ delivered[i].ref.elem = "main.f"

\* the import of module m that a lookup of name n matches, and the
\* parameters of the export that import names
ImportFor(m, n) ==
  ModImports(m)[CHOOSE i \in ImportsNamed(m, n) : \A j \in ImportsNamed(m, n) : i <= j]

ExportParams(imp) ==
  ModExports(imp.from)[CHOOSE j \in 1..Len(ModExports(imp.from)) :
                         /\ ModExports(imp.from)[j].name = imp.name
                         /\ \A k \in 1..(j - 1) :
                               ModExports(imp.from)[k].name # imp.name].args

Shorter(a, b) == IF Len(a) <= Len(b) THEN Len(a) ELSE Len(b)

MismatchLogged(site) ==
  \E k \in 1..Len(diags) :
     diags[k].site = site /\ diags[k].msg = "mismatched import and export params"

\* the call or type reference s was resolved through an import
ViaImport(s) == elemRef[s] # None /\ elemRef[s][1].expInfo # None

\* C15 as stated: when the import's argument count differs from the export's
\* parameter count the mismatch is logged, and the ref's expImpArgs pair the
\* positions present on both sides: its length is the smaller of the two
\* counts.
C15_ShorterLength ==
  \A s \in AllSites :
     (/\ ViaImport(s)
      /\ Len(ImportFor(ElemTable[s[1]].mod, s[3]).args)
           # Len(ExportParams(ImportFor(ElemTable[s[1]].mod, s[3]))))
       => /\ MismatchLogged(s)
          /\ Len(ExpImpArgsOf(elemRef[s][1]))
               = Shorter(ImportFor(ElemTable[s[1]].mod, s[3]).args,
                         ExportParams(ImportFor(ElemTable[s[1]].mod, s[3])))
          /\ \A i \in 1..Len(ExpImpArgsOf(elemRef[s][1])) :
                ExpImpArgsOf(elemRef[s][1])[i]
                  = <<ExportParams(ImportFor(ElemTable[s[1]].mod, s[3]))[i],
                      ImportFor(ElemTable[s[1]].mod, s[3]).args[i]>>

\* the import through which a delivered ref was found: the one its
\* proposedName matches in the module of the element it was found from
ImportOf(ref) == ImportFor(ref.expInfo[1].fromRef.expMod, ref.proposedName)

\* C16: a ref found through an import with arguments, as many as the export
\* has parameters, carries in expInfo.expImpArgs the pairs <<i-th export
\* parameter, i-th import argument>>, in parameter order.
C16_PairsInOrder ==
  \A i \in DeliveredIdx :
     (/\ delivered[i].ref.expInfo # None
      /\ Len(ImportOf(delivered[i].ref).args) > 0
      /\ Len(ImportOf(delivered[i].ref).args)
           = Len(ExportParams(ImportOf(delivered[i].ref))))
       => delivered[i].ref.expInfo[1].expImpArgs
            = [k \in 1..Len(ExportParams(ImportOf(delivered[i].ref))) |->
                 <<ExportParams(ImportOf(delivered[i].ref))[k],
                   ImportOf(delivered[i].ref).args[k]>>]

\* a finished traversal that delivered m1.T, imported with two arguments for
\* its two parameters, and m1.g, imported by main with u32 and by m2 with f32
C16_Witness ==
  /\ TravDone
  /\ \E i \in DeliveredIdx :
        /\ delivered[i].ref.elem = "m1.T"
        /\ ExpImpArgsOf(delivered[i].ref) = << <<"A", "i32">>, <<"B", "f32">> >>
  /\ \E i \in DeliveredIdx :
        /\ delivered[i].ref.elem = "m1.g"
        /\ ExpImpArgsOf(delivered[i].ref) = << <<"P", "u32">> >>
  /\ \E i \in DeliveredIdx :
        /\ delivered[i].ref.elem = "m1.g"
        /\ ExpImpArgsOf(delivered[i].ref) = << <<"P", "f32">> >>

\* the call / typeRef elements whose ref is set to a ref to the same target
\* element with the same import arguments
SameTarget(s1, s2) ==
  /\ elemRef[s1] # None
  /\ elemRef[s2] # None
  /\ elemRef[s1][1].kind = "txt"
  /\ elemRef[s2][1].kind = "txt"
  /\ elemRef[s1][1].elem = elemRef[s2][1].elem
  /\ ExpImpArgsOf(elemRef[s1][1]) = ExpImpArgsOf(elemRef[s2][1])

\* C20: within one traversal all call and typeRef elements that resolve to
\* the same target element with the same import arguments have their ref set
\* to the same FoundRef object, so that a rename written on it is seen
\* through every one of them.
C20_OneFoundRefPerTarget ==
  \A s1, s2 \in AllSites : SameTarget(s1, s2) => refObj[s1] = refObj[s2]

\* the export parameters of the import through which the ref was found
ParamsOf(r) ==
  {ExpImpArgsOf(r)[i][1] : i \in 1..Len(ExpImpArgsOf(r))}

\* the local declarations that the element of the ref references
LocalTargets(r) ==
  {RefsOf(ElemRefs(r, r.expMod, on))[i].elem :
     i \in {k \in 1..Len(RefsOf(ElemRefs(r, r.expMod, on))) :
              /\ RefsOf(ElemRefs(r, r.expMod, on))[k].kind = "txt"
              /\ RefsOf(ElemRefs(r, r.expMod, on))[k].expInfo = None}}

\* the children of element e named like a parameter in ps are argument
\* references: no ref, no diagnostic
ArgRefsIn(e, ps) ==
  \A k \in 1..Len(Children(e)) :
     (LookedUp(Children(e)[k]) /\ Children(e)[k].name \in ps) =>
       /\ elemRef[Site(Children(e)[k])] = None
       /\ ~Diagnosed(Site(Children(e)[k]))

\* C21: in every element reached through an import whose export declares
\* parameters, the exported element and the local declarations it
\* references, a call or type reference named like one of the parameters is
\* an argument reference: no FoundRef and no 'reference not found'
\* diagnostic.
C21_ParamsAreArgRefs ==
  TravDone =>
    \A k \in ExpandedIdx :
       expanded[k].ref.expInfo # None =>
         \A e \in {expanded[k].ref.elem} \cup LocalTargets(expanded[k].ref) :
            ExpandedElem(e) => ArgRefsIn(e, ParamsOf(expanded[k].ref))

\* the calls in fn e named like e itself
SelfCalls(e) ==
  {k \in 1..Len(ElemCalls(e, on)) : ElemCalls(e, on)[k].name = ElemName(e)}

\* C22: a call inside a fn named like the fn itself is never looked up: no
\* child ref is made for it, its ref stays unset and no diagnostic is
\* logged, so it adds nothing to the next batch of refs.
C22_SelfCallSkipped ==
  \A e \in ElemIds :
     \A k \in SelfCalls(e) :
        /\ elemRef[Site(ElemCalls(e, on)[k])] = None
        /\ refObj[Site(ElemCalls(e, on)[k])] = None
        /\ ~Diagnosed(Site(ElemCalls(e, on)[k]))

\* the calls of the callback with a ref to element e
DeliveriesOf(e) ==
  {i \in DeliveredIdx : delivered[i].ref.kind = "txt" /\ delivered[i].ref.elem = e}

\* C22 as stated: a call inside a fn named like the fn itself yields no
\* child ref, no lookup and no diagnostic, so a directly recursive fn is
\* delivered once.
C22_RecursiveFnOnce ==
  \A e \in ElemIds :
     SelfCalls(e) # {} =>
       /\ \A k \in SelfCalls(e) :
             /\ elemRef[Site(ElemCalls(e, on)[k])] = None
             /\ ~Diagnosed(Site(ElemCalls(e, on)[k]))
       /\ Cardinality(DeliveriesOf(e)) <= 1

\* a finished traversal that expanded main.f, which calls f and other fns
C22_Witness ==
  /\ TravDone
  /\ SelfCalls("main.f") # {}
  /\ ExpandedElem("main.f")
  /\ elemRef[<<"main.f", "call", "UU">>] # None

\* C25: for every ref resolved through an import, expInfo.fromImport is the
\* import of the importing module whose leaf or alias is the referenced
\* name, and expInfo.fromRef is the ref of the element that contains the
\* reference.
C25_FromImportResolved ==
  \A s \in AllSites :
     ViaImport(s) =>
       /\ elemRef[s][1].expInfo[1].fromImport = ImportFor(ElemTable[s[1]].mod, s[3])
       /\ elemRef[s][1].expInfo[1].fromRef.kind = "txt"
       /\ elemRef[s][1].expInfo[1].fromRef.elem = s[1]

\* the ref is what the import of module m named n resolves to, with that
\* import's arguments
FromImportOf(r, m, n) ==
  /\ ImportsNamed(m, n) # {}
  /\ r.expMod = ImportFor(m, n).from
  /\ RefName(r) = ImportFor(m, n).name
  /\ \A i \in 1..Len(ExpImpArgsOf(r)) :
        i <= Len(ImportFor(m, n).args) =>
          ExpImpArgsOf(r)[i][2] = ImportFor(m, n).args[i]

\* the ref is to a declaration of module m named n
FromDeclOf(r, m, n) ==
  /\ r.kind = "txt"
  /\ r.expMod = m
  /\ ElemTable[r.elem].mod = m
  /\ ElemName(r.elem) = n

\* C26: the references inside an element are looked up in the module that
\* holds the element, the exporting module of the ref delivered for it: the
\* ref set on a call or type reference comes from an import or from a
\* declaration of that module, never from those of the root module or of
\* the module that imported the element.
C26_LookupInExportingModule ==
  \A s \in AllSites :
     elemRef[s] # None =>
       IF elemRef[s][1].expInfo # None
       THEN FromImportOf(elemRef[s][1], ElemTable[s[1]].mod, s[3])
       ELSE FromDeclOf(elemRef[s][1], ElemTable[s[1]].mod, s[3])

\* a finished traversal in which sup of m1 called g, which the root module
\* both declares and imports, and h of m2 called g, which m2 imports with
\* other arguments than the root module does
C26_Witness ==
  /\ TravDone
  /\ elemRef[<<"m1.sup", "call", "g">>] # None
  /\ elemRef[<<"m1.sup", "call", "g">>][1].elem = "m1.g"
  /\ elemRef[<<"m1.sup", "call", "g">>][1].expInfo = None
  /\ elemRef[<<"m2.h", "call", "g">>] # None
  /\ ExpImpArgsOf(elemRef[<<"m2.h", "call", "g">>][1]) = << <<"P", "f32">> >>
  /\ elemRef[<<"main.f", "call", "g">>] # None
  /\ ExpImpArgsOf(elemRef[<<"main.f", "call", "g">>][1]) = << <<"P", "u32">> >>

(***************************************************************************)
(* SrcMap: entries map ranges of src texts to ranges of one dest text      *)
(***************************************************************************)
MaxPos == 2
MaxEntries == 2

Positions == 0..MaxPos

Ok(v) == [ok |-> TRUE, val |-> v]

\* throw new Error(msg)
Thrown(msg) == [ok |-> FALSE, val |-> msg]

SrcMapEntry(src, srcStart, srcEnd, destStart, destEnd) ==
  [src |-> src, srcStart |-> srcStart, srcEnd |-> srcEnd,
   destStart |-> destStart, destEnd |-> destEnd]

SrcMapOf(dest, entries) == [dest |-> dest, entries |-> entries]

DestToSrcAt(destPos, entries, i) ==
  IF i = 0 THEN Thrown("no SrcMapEntry for dest position")
  ELSE Ok([src |-> entries[i].src,
           position |-> entries[i].srcStart + destPos - entries[i].destStart])

\* the source position corresponding to a destination position
DestToSrc(destPos, entries) ==
  DestToSrcAt(destPos, entries,
              FindIndex([i \in 1..Len(entries) |->
                           /\ entries[i].destStart <= destPos
                           /\ entries[i].destEnd >= destPos]))

FirstFailure(rs, i) == IF i = 0 THEN Ok(<<>>) ELSE rs[i]

\* positions.map(p => destToSrc(p, entries)): the first throw ends the call
MapAll(rs) ==
  IF \A i \in 1..Len(rs) : rs[i].ok
  THEN Ok([i \in 1..Len(rs) |-> rs[i].val])
  ELSE FirstFailure(rs, FindIndex([i \in 1..Len(rs) |-> ~rs[i].ok]))

MapPositions(map, positions) ==
  MapAll([i \in 1..Len(positions) |-> DestToSrc(positions[i], map.entries)])

RECURSIVE InsertBy(_, _, _)
\* Array.prototype.sort is stable: e goes after the entries that do not
\* compare greater
InsertBy(e, sorted, key) ==
  IF sorted = <<>> THEN <<e>>
  ELSE IF sorted[Len(sorted)][key] <= e[key] THEN Append(sorted, e)
  ELSE Append(InsertBy(e, SubSeq(sorted, 1, Len(sorted) - 1), key),
              sorted[Len(sorted)])

RECURSIVE SortBy(_, _, _)
SortBy(entries, n, key) ==
  IF n = 0 THEN <<>> ELSE InsertBy(entries[n], SortBy(entries, n - 1, key), key)

\* sort in destination order
Sort(entries) == SortBy(entries, Len(entries), "destStart")

\* sort entries by src start position
SortSrc(entries) == SortBy(entries, Len(entries), "srcStart")

MergedEntry(e, start, end) ==
  IF ~start.ok THEN start
  ELSE IF ~end.ok THEN end
  ELSE IF end.val.src # start.val.src THEN Thrown("NYI, need to split")
  ELSE Ok(SrcMapEntry(start.val.src, start.val.position, end.val.position,
                      e.destStart, e.destEnd))

NewEntry(e, entries) ==
  MergedEntry(e, DestToSrc(e.srcStart, entries), DestToSrc(e.srcEnd, entries))

MergeEntries(this, other, newEntries) ==
  IF ~newEntries.ok THEN newEntries
  ELSE Ok(SrcMapOf(other.dest,
                   Sort(SelectSeq(other.entries, LAMBDA e : e.src # this.dest)
                          \o newEntries.val)))

MergeMapped(this, other, mappedEntries) ==
  IF mappedEntries = <<>> THEN Ok(other)
  ELSE MergeEntries(this, other,
                    MapAll([i \in 1..Len(mappedEntries) |->
                              NewEntry(SortSrc(mappedEntries)[i], this.entries)]))

\* this.merge(other) for another map object
Merge(this, other) ==
  MergeMapped(this, other,
              SelectSeq(other.entries, LAMBDA e : e.src = this.dest))

\* the messages merge writes to the console
MergeLog(this, other) ==
  IF SelectSeq(other.entries, LAMBDA e : e.src = this.dest) = <<>>
  THEN <<"other source map does not link to this one">> ELSE <<>>

\* length-preserving entries within 0..MaxPos
EntriesOf(srcs) ==
  {SrcMapEntry(src, ss, ss + len, ds, ds + len) :
     src \in srcs, ss \in Positions, ds \in Positions, len \in 1..MaxPos}
    \cap [src : srcs, srcStart : Positions, srcEnd : Positions,
          destStart : Positions, destEnd : Positions]

\* entries in destination order that do not overlap in the destination
EntryLists(srcs) ==
  {es \in UNION {[1..n -> EntriesOf(srcs)] : n \in 0..MaxEntries} :
     \A i, j \in 1..Len(es) : i < j => es[i].destEnd <= es[j].destStart}

MaxArgs == 2

\* the argument lists of mapPositions
PositionLists == UNION {[1..n -> Positions] : n \in 1..MaxArgs}

\* M1.mapPositions applied to the positions M2.mapPositions returns
ComposedAt(m1, r2) ==
  IF ~r2.ok THEN r2
  ELSE MapPositions(m1, [i \in 1..Len(r2.val) |-> r2.val[i].position])

Composed(m1, m2, positions) == ComposedAt(m1, MapPositions(m2, positions))

\* two maps: m1 from the texts a and b to d1, m2 from d1 and c to d2
InitMap ==
  /\ sm \in [phase : {"start"}, self : {FALSE},
              m1 : {SrcMapOf("d1", es) : es \in EntryLists({"a", "b"})},
              m2 : {SrcMapOf("d2", es) : es \in EntryLists({"d1", "c"})},
              merged : {None}, log : {<<>>}, positions : {<<>>},
              direct : {None}, viaMerged : {None}, composed : {None}]
  /\ root = "empty"
  /\ on = {}
  /\ visitor = "all"
  /\ pc = "idle"
  /\ seedIdx = 0
  /\ stack = <<>>
  /\ delivered = <<>>
  /\ seen = {}
  /\ diags = <<>>
  /\ elemRef = [s \in AllSites |-> None]
  /\ refObj = [s \in AllSites |-> None]
  /\ expanded = <<>>
  /\ nbatch = 0
  /\ lx = LexIdle
  /\ calls = <<>>
  /\ lastCall = LexIdle
  /\ pm = ParseIdle
  /\ gp = ParseIdle
  /\ sl = ParseIdle
  /\ reg = ParseIdle

\* m1.merge(m2)
DoMerge ==
  /\ sm.phase = "start"
  /\ sm' = [sm EXCEPT !.phase = "merged",
                       !.merged = Some(Merge(sm.m1, sm.m2)),
                       !.log = MergeLog(sm.m1, sm.m2)]
  /\ UNCHANGED <<travVars, lexVars, parseVars, miscVars>>

\* m1.merge(m1): if (other === this) return this
DoMergeSelf ==
  /\ sm.phase = "start"
  /\ sm' = [sm EXCEPT !.phase = "merged", !.self = TRUE, !.m2 = sm.m1,
                       !.merged = Some(Ok(sm.m1))]
  /\ UNCHANGED <<travVars, lexVars, parseVars, miscVars>>

\* mapPositions on m2, on the merged map if there is one, and on m1 with
\* what m2 returned
DoMapPositions ==
  /\ sm.phase = "merged"
  /\ \E positions \in PositionLists :
        sm' = [sm EXCEPT !.phase = "mapped",
                         !.positions = positions,
                         !.direct = Some(MapPositions(sm.m2, positions)),
                         !.viaMerged = IF sm.merged[1].ok
                                       THEN Some(MapPositions(sm.merged[1].val, positions))
                                       ELSE None,
                         !.composed = Some(Composed(sm.m1, sm.m2, positions))]
  /\ UNCHANGED <<travVars, lexVars, parseVars, miscVars>>

NextMap == DoMerge \/ DoMergeSelf \/ DoMapPositions

SpecMap == InitMap /\ [][NextMap]_vars

\* every entry of m2 has its src in m1's destination, and m1 has an entry for
\* every position of those src ranges
Linked2(m1, m2) ==
  /\ m2.entries # <<>>
  /\ \A i \in 1..Len(m2.entries) :
        /\ m2.entries[i].src = m1.dest
        /\ \A q \in m2.entries[i].srcStart..m2.entries[i].srcEnd :
              DestToSrc(q, m1.entries).ok

\* C7: for maps m1 and m2, m2's entries all with src m1.dest, length-
\* preserving and in destination order, the merged map sends every position
\* of m2's destination where m1.mapPositions(m2.mapPositions(p)) sends it,
\* also when one entry of m2 spans several entries of m1.
C7_MergeComposes ==
  (/\ sm.phase = "mapped"
   /\ ~sm.self
   /\ Linked2(sm.m1, sm.m2)
   /\ sm.direct[1].ok)
    => /\ sm.merged[1].ok
       /\ sm.viaMerged = sm.composed

\* C8: no operation throws: mapPositions returns a source position for every
\* destination position, and merge returns a map for every pair of maps.
C8_NeverThrows ==
  /\ sm.merged # None => sm.merged[1].ok
  /\ sm.direct # None => sm.direct[1].ok
  /\ sm.viaMerged # None => sm.viaMerged[1].ok

\* C28: for a map whose entries are in destination order and do not overlap
\* in the destination, every destination position p with
\* e.destStart <= p < e.destEnd for an entry e maps to
\* (e.src, e.srcStart + p - e.destStart), also when p = e.destStart and the
\* preceding entry ends at p.
C28_HalfOpen ==
  (sm.direct # None /\ sm.direct[1].ok) =>
    \A i \in 1..Len(sm.positions) : \A k \in 1..Len(sm.m2.entries) :
       (/\ sm.m2.entries[k].destStart <= sm.positions[i]
        /\ sm.positions[i] < sm.m2.entries[k].destEnd)
         => sm.direct[1].val[i] =
              [src |-> sm.m2.entries[k].src,
               position |-> sm.m2.entries[k].srcStart + sm.positions[i]
                              - sm.m2.entries[k].destStart]

(***************************************************************************)
(* SrcMap.compact: adjacent entries of one src are combined into one       *)
(***************************************************************************)
MaxSpan == 3
MaxCompact == 3
MaxOverlap == 2

\* e.src === prev.src && prev.destEnd === e.destStart && prev.srcEnd === e.srcStart
AdjacentInDest(prev, e) ==
  /\ e.src = prev.src
  /\ prev.destEnd = e.destStart

Adjacent(prev, e) ==
  /\ e.src = prev.src
  /\ prev.destEnd = e.destStart
  /\ prev.srcEnd = e.srcStart

\* prev.destEnd = e.destEnd; prev.srcEnd = e.srcEnd
Combined(prev, e) == [prev EXCEPT !.destEnd = e.destEnd, !.srcEnd = e.srcEnd]

RECURSIVE CompactFrom(_, _, _)
\* the loop of compact from index i on; prev is the last of newEntries
CompactFrom(entries, i, newEntries) ==
  IF i > Len(entries) THEN newEntries
  ELSE IF Adjacent(newEntries[Len(newEntries)], entries[i])
       THEN CompactFrom(entries, i + 1,
                        [newEntries EXCEPT ![Len(newEntries)] = Combined(@, entries[i])])
       ELSE CompactFrom(entries, i + 1, Append(newEntries, entries[i]))

\* the entries after compact()
Compact(entries) ==
  IF entries = <<>> THEN entries ELSE CompactFrom(entries, 2, <<entries[1]>>)

\* length-preserving entries of the texts a and b within 0..MaxSpan
CompactEntries ==
  {SrcMapEntry(src, ss, ss + len, ds, ds + len) :
     src \in {"a", "b"}, ss \in 0..MaxSpan, ds \in 0..MaxSpan, len \in 1..MaxSpan}
    \cap [src : {"a", "b"}, srcStart : 0..MaxSpan, srcEnd : 0..MaxSpan,
          destStart : 0..MaxSpan, destEnd : 0..MaxSpan]

NonOverlapping(entries) ==
  \A i, j \in 1..Len(entries) : i < j => entries[i].destEnd <= entries[j].destStart

\* sorted by destStart, as sort() leaves the entries
InDestOrder(entries) ==
  \A i, j \in 1..Len(entries) : i < j => entries[i].destStart <= entries[j].destStart

RECURSIVE CompactLists(_, _)
\* up to n entries in destination order: the lists whose entries do not
\* overlap in the destination, or all of them
CompactLists(n, overlapping) ==
  IF n = 0 THEN {<<>>}
  ELSE LET shorter == CompactLists(n - 1, overlapping)
       IN  shorter \cup
             {l \in {Append(es, e) : es \in {x \in shorter : Len(x) = n - 1},
                                     e \in CompactEntries} :
                IF overlapping THEN InDestOrder(l) ELSE NonOverlapping(l)}

InitCompact ==
  /\ sm \in [phase : {"start"},
              map : {SrcMapOf("d", es) :
                       es \in CompactLists(MaxCompact, FALSE)
                                \cup CompactLists(MaxOverlap, TRUE)},
              orig : {None}, position : {None}, before : {None}, after : {None}]
  /\ root = "empty"
  /\ on = {}
  /\ visitor = "all"
  /\ pc = "idle"
  /\ seedIdx = 0
  /\ stack = <<>>
  /\ delivered = <<>>
  /\ seen = {}
  /\ diags = <<>>
  /\ elemRef = [s \in AllSites |-> None]
  /\ refObj = [s \in AllSites |-> None]
  /\ expanded = <<>>
  /\ nbatch = 0
  /\ lx = LexIdle
  /\ calls = <<>>
  /\ lastCall = LexIdle
  /\ pm = ParseIdle
  /\ gp = ParseIdle
  /\ sl = ParseIdle
  /\ reg = ParseIdle

\* map.mapPositions(p) before compact
MapBefore ==
  /\ sm.phase = "start"
  /\ \E p \in 0..MaxSpan :
        sm' = [sm EXCEPT !.phase = "mapped", !.position = Some(p),
                         !.before = Some(MapPositions(sm.map, <<p>>))]
  /\ UNCHANGED <<travVars, lexVars, parseVars, miscVars>>

\* map.compact()
DoCompact ==
  /\ sm.phase = "mapped"
  /\ sm' = [sm EXCEPT !.phase = "compacted", !.orig = Some(sm.map.entries),
                       !.map = SrcMapOf(sm.map.dest, Compact(sm.map.entries))]
  /\ UNCHANGED <<travVars, lexVars, parseVars, miscVars>>

\* map.mapPositions(p) after compact, for the same p
MapAfter ==
  /\ sm.phase = "compacted"
  /\ sm' = [sm EXCEPT !.phase = "remapped",
                       !.after = Some(MapPositions(sm.map, <<sm.position[1]>>))]
  /\ UNCHANGED <<travVars, lexVars, parseVars, miscVars>>

NextCompact == MapBefore \/ DoCompact \/ MapAfter

SpecCompact == InitCompact /\ [][NextCompact]_vars

\* C29: compact does not change the mapping: for a map of length-preserving
\* entries in destination order, a position mapPositions accepted before
\* compact maps to the same source and position after it, and entries that
\* did not overlap in the destination before compact do not overlap after it.
C29_CompactKeepsMapping ==
  /\ (sm.phase = "remapped" /\ sm.before[1].ok) => sm.after = sm.before
  /\ (sm.phase \in {"compacted", "remapped"} /\ NonOverlapping(sm.orig[1]))
       => NonOverlapping(sm.map.entries)

\* three adjacent entries of one src have become one, and a position of the
\* third maps where it did
C29_Witness ==
  /\ sm.phase = "remapped"
  /\ Len(sm.orig[1]) = 3
  /\ NonOverlapping(sm.orig[1])
  /\ Len(sm.map.entries) = 1
  /\ sm.position = Some(2)
  /\ sm.before[1].ok
  /\ sm.after = sm.before

(***************************************************************************)
(* matchingLexer: a lexer over src with a stack of substitute matchers     *)
(***************************************************************************)
MaxDepth == 2

\* the matcher stack is left deeper by every call that ends in a throw: the
\* calls stop when it holds this many elements
MaxStack == 2

\* the src text, one token per character; the root matcher tells words from
\* white space, the alternate matcher calls every character "any"
SrcText == <<"word", "ws", "word">>

SrcLen == Len(SrcText)

Matchers == {"root", "alt"}

IgnoreSets == {{"ws"}, {}}

\* a position handed to position(pos) may lie this far outside the src
MaxOver == 1

PosArgs == (0 - MaxOver)..(SrcLen + MaxOver)

\* the kind of the token the matcher finds at p: where the regex finds
\* nothing and the cursor is not at the end, a token "unknown" of one character
KindAt(m, p) ==
  IF p \notin 0..(SrcLen - 1) THEN "unknown"
  ELSE IF m = "alt" THEN "any" ELSE SrcText[p + 1]

\* matcher.position()
MatcherPosition(l) == l.pos[l.matcher]

Eof(l) == MatcherPosition(l) = SrcLen

RECURSIVE Scan(_, _, _)
\* the loop of next() from position p: tokens of an ignored kind are skipped,
\* undefined at the end of src
Scan(m, ignore, p) ==
  IF p = SrcLen THEN [position |-> p, token |-> None]
  ELSE IF KindAt(m, p) \in ignore THEN Scan(m, ignore, p + 1)
  ELSE [position |-> p + 1, token |-> Some(KindAt(m, p))]

LexNextAt(l, scanned) ==
  [l EXCEPT !.pos[l.matcher] = scanned.position, !.token = scanned.token]

\* next(): return the next token, advancing the current position
LexNext(l) ==
  IF Eof(l) THEN [l EXCEPT !.token = None]
  ELSE LexNextAt(l, Scan(l.matcher, l.ignore, MatcherPosition(l)))

PushMatcher(l, newMatcher, newIgnore) ==
  [l EXCEPT !.matcherStack = Append(@, [matcher |-> l.matcher, ignore |-> l.ignore]),
            !.pos[newMatcher] = MatcherPosition(l),
            !.matcher = newMatcher,
            !.ignore = newIgnore]

PopTo(l, elem, position) ==
  [l EXCEPT !.matcherStack = SubSeq(@, 1, Len(@) - 1),
            !.matcher = elem.matcher,
            !.ignore = elem.ignore,
            !.pos[elem.matcher] = position]

PopMatcher(l) ==
  IF l.matcherStack = <<>> THEN l
  ELSE PopTo(l, l.matcherStack[Len(l.matcherStack)], MatcherPosition(l))

\* position(pos): matcher.start(src, pos)
LexPosition(l, p) == [l EXCEPT !.pos[l.matcher] = p]

\* what a caller of withMatcher / withIgnore can see of the lexer
LexView(l) ==
  [matcher |-> l.matcher, ignore |-> l.ignore, depth |-> Len(l.matcherStack)]

\* a finished withMatcherIgnore call: how fn ended, the lexer before the
\* call and after it, the position of the inner matcher when fn ended and
\* the position, after the call, of the matcher that was active before it
CallRecord(how, call, l, after) ==
  [how |-> how, kind |-> call.kind, before |-> call.before,
   innerPos |-> MatcherPosition(l), after |-> LexView(after),
   outerPos |-> after.pos[call.before.matcher]]

InitLex ==
  /\ lx = [matcher |-> "root", ignore |-> {"ws"}, matcherStack |-> <<>>,
           pos |-> [m \in Matchers |-> 0], token |-> None]
  /\ calls = <<>>
  /\ lastCall = LexIdle
  /\ sm = MapIdle
  /\ pm = ParseIdle
  /\ gp = ParseIdle
  /\ sl = ParseIdle
  /\ reg = ParseIdle
  /\ root = "empty"
  /\ on = {}
  /\ visitor = "all"
  /\ pc = "idle"
  /\ seedIdx = 0
  /\ stack = <<>>
  /\ delivered = <<>>
  /\ seen = {}
  /\ diags = <<>>
  /\ elemRef = [s \in AllSites |-> None]
  /\ refObj = [s \in AllSites |-> None]
  /\ expanded = <<>>
  /\ nbatch = 0

Next ==
  /\ MatcherPosition(lx) < SrcLen + MaxOver
  /\ lx' = LexNext(lx)
  /\ UNCHANGED <<calls, lastCall, travVars, mapVars, parseVars, miscVars>>

Position ==
  /\ \E p \in PosArgs : lx' = LexPosition(lx, p)
  /\ UNCHANGED <<calls, lastCall, travVars, mapVars, parseVars, miscVars>>

\* withMatcherIgnore up to the call of fn
EnterWith(kind, tokenMatcher, ignore) ==
  /\ lx' = PushMatcher(lx, tokenMatcher, ignore)
  /\ calls' = Append(calls, [kind |-> kind, before |-> LexView(lx)])
  /\ UNCHANGED <<lastCall, travVars, mapVars, parseVars, miscVars>>

WithMatcher ==
  /\ Len(calls) < MaxDepth
  /\ Len(lx.matcherStack) < MaxStack
  /\ \E m \in Matchers : EnterWith("withMatcher", m, lx.ignore)

WithIgnore ==
  /\ Len(calls) < MaxDepth
  /\ Len(lx.matcherStack) < MaxStack
  /\ \E ig \in IgnoreSets : EnterWith("withIgnore", lx.matcher, ig)

\* fn returns: popMatcher(), return result
FnReturns ==
  /\ calls # <<>>
  /\ lx' = PopMatcher(lx)
  /\ lastCall' = CallRecord("return", calls[Len(calls)], lx, PopMatcher(lx))
  /\ calls' = SubSeq(calls, 1, Len(calls) - 1)
  /\ UNCHANGED <<travVars, mapVars, parseVars, miscVars>>

\* fn throws: the exception leaves withMatcherIgnore at the call of fn
FnThrows ==
  /\ calls # <<>>
  /\ lastCall' = CallRecord("throw", calls[Len(calls)], lx, lx)
  /\ calls' = SubSeq(calls, 1, Len(calls) - 1)
  /\ UNCHANGED <<lx, travVars, mapVars, parseVars, miscVars>>

NextLex == Next \/ Position \/ WithMatcher \/ WithIgnore \/ FnReturns \/ FnThrows

SpecLex == InitLex /\ [][NextLex]_vars

\* C6: after withMatcher(m, fn) finishes, by return or by throw, the active
\* matcher and the ignore set are those from before the call, the matcher
\* stack has its prior depth, and the outer matcher is at the position the
\* inner matcher had when fn ended.
C6_MatcherRestored ==
  (lastCall # LexIdle /\ lastCall.kind = "withMatcher")
    => /\ lastCall.after = lastCall.before
       /\ lastCall.outerPos = lastCall.innerPos

\* C14: after any sequence of lexer operations the position of the lexer is
\* a valid index into the src: 0 <= position <= length of the src.
C14_PositionValid ==
  /\ 0 <= MatcherPosition(lx)
  /\ MatcherPosition(lx) <= SrcLen

(***************************************************************************)
(* parseModule: the exports, the element lists and the importMerges of a   *)
(* module, from the elements parseWgslD produced                           *)
(***************************************************************************)
MaxElems == 3

\* the number of unnamed modules parsed before the call is at most this
MaxUnnamed == 2

ElemKinds == {"export", "importMerge", "fn", "struct", "var", "import",
              "module", "template"}

\* the elements parseWgslD returns for a source: element i has kinds[i] and
\* starts at position i - 1
ParsedOf(kinds) == [i \in 1..Len(kinds) |-> [kind |-> kinds[i], start |-> i - 1]]

ParsedInputs == {ParsedOf(kinds) : kinds \in UNION {[1..n -> ElemKinds] : n \in 0..MaxElems}}

\* findKind: the elements of a kind, each with its index, in order
FindKind(parsed, kind) ==
  SelectSeq([i \in 1..Len(parsed) |-> i], LAMBDA i : parsed[i].kind = kind)

\* filterElems
FilterElems(parsed, kind) == FindKind(parsed, kind)

RECURSIVE SkipFrom(_, _, _)
\* do { next = parsed[++i] } while (next?.kind is one of skipped): the index
\* of next, 0 if it is undefined
SkipFrom(parsed, i, skipped) ==
  IF i + 1 > Len(parsed) THEN 0
  ELSE IF parsed[i + 1].kind \in skipped THEN SkipFrom(parsed, i + 1, skipped)
  ELSE i + 1

\* variant of the loop in findExports that takes the element that follows
ExportNextNoSkip(parsed, i) == IF i + 1 > Len(parsed) THEN 0 ELSE i + 1

ExportNext(parsed, i) == SkipFrom(parsed, i, {"importMerge"})

Exportable(parsed, next) == next # 0 /\ parsed[next].kind \in {"fn", "struct"}

SrcLogAt(pos, msg) == [pos |-> pos, msg |-> msg]

\* findExports: a TextExport for every export followed by a fn or struct, a
\* message for every other export
FindExports(parsed) ==
  [results |->
     [k \in 1..Len(SelectSeq(FindKind(parsed, "export"),
                             LAMBDA i : Exportable(parsed, ExportNext(parsed, i)))) |->
        [elem |-> SelectSeq(FindKind(parsed, "export"),
                            LAMBDA i : Exportable(parsed, ExportNext(parsed, i)))[k],
         ref |-> ExportNext(parsed,
                            SelectSeq(FindKind(parsed, "export"),
                                      LAMBDA i : Exportable(parsed, ExportNext(parsed, i)))[k])]],
   log |->
     [k \in 1..Len(SelectSeq(FindKind(parsed, "export"),
                             LAMBDA i : ~Exportable(parsed, ExportNext(parsed, i)))) |->
        SrcLogAt(parsed[SelectSeq(FindKind(parsed, "export"),
                                  LAMBDA i : ~Exportable(parsed, ExportNext(parsed, i)))[k]].start,
                 "#export what? (#export a fn or struct)")]]

\* variant of the loop in matchMergeImports that also passes over vars
MergeNextSkipsVars(parsed, i) == SkipFrom(parsed, i, {"importMerge", "export", "var"})

MergeNext(parsed, i) == SkipFrom(parsed, i, {"importMerge", "export"})

Mergeable(parsed, next) == next # 0 /\ parsed[next].kind = "struct"

\* matchMergeImports: every importMerge followed by a struct is pushed on
\* that struct's importMerges, a message is logged for every other one
MatchMergeImports(parsed, importMerges, log) ==
  [importMerges |->
     [n \in 1..Len(parsed) |->
        importMerges[n] \o SelectSeq(FindKind(parsed, "importMerge"),
                                     LAMBDA i : /\ Mergeable(parsed, MergeNext(parsed, i))
                                                /\ MergeNext(parsed, i) = n)],
   log |->
     log \o [k \in 1..Len(SelectSeq(FindKind(parsed, "importMerge"),
                                    LAMBDA i : ~Mergeable(parsed, MergeNext(parsed, i)))) |->
               SrcLogAt(parsed[SelectSeq(FindKind(parsed, "importMerge"),
                                         LAMBDA i : ~Mergeable(parsed, MergeNext(parsed, i)))[k]].start,
                        "#extends not followed by a struct")]]

\* name = moduleName ?? defaultModuleName ?? `module${unnamedModuleDex++}`
ModuleNameOf(parsed, defaultModuleName, dex) ==
  IF FilterElems(parsed, "module") # <<>>
  THEN <<"module elem", FilterElems(parsed, "module")[1]>>
  ELSE IF defaultModuleName # None THEN <<"default", defaultModuleName[1]>>
  ELSE <<"module", dex>>

NextDex(parsed, defaultModuleName, dex) ==
  IF FilterElems(parsed, "module") = <<>> /\ defaultModuleName = None
  THEN dex + 1 ELSE dex

\* the TextModule returned, with the importMerges of its elements and the log
TextModuleOf(parsed, exports, merged, name) ==
  [kind |-> "text", name |-> name, parsed |-> parsed,
   exports |-> exports.results,
   fns |-> FilterElems(parsed, "fn"),
   imports |-> SelectSeq([i \in 1..Len(parsed) |-> i],
                         LAMBDA i : parsed[i].kind \in {"import", "importMerge"}),
   structs |-> FilterElems(parsed, "struct"),
   vars |-> FilterElems(parsed, "var"),
   template |-> IF FilterElems(parsed, "template") = <<>> THEN None
                ELSE Some(FilterElems(parsed, "template")[1]),
   importMerges |-> merged.importMerges,
   log |-> merged.log]

\* parseModule: findExports, then matchMergeImports, which is called twice
ParseModuleOf(parsed, defaultModuleName, dex) ==
  CHOOSE m \in
    {TextModuleOf(parsed, exports, merged, ModuleNameOf(parsed, defaultModuleName, dex)) :
       exports \in {FindExports(parsed)},
       merged \in {MatchMergeImports(parsed, once.importMerges, once.log) :
                     once \in {MatchMergeImports(parsed, [n \in 1..Len(parsed) |-> <<>>],
                                                 FindExports(parsed).log)}}} : TRUE

\* a call of parseModule: its arguments, and the counter of unnamed modules
\* as earlier calls left it
InitModule ==
  /\ pm \in [parsed : ParsedInputs, defaultModuleName : {None, Some("main")},
              unnamedModuleDex : 0..MaxUnnamed, out : {None}]
  /\ gp = ParseIdle
  /\ sl = ParseIdle
  /\ reg = ParseIdle
  /\ sm = MapIdle
  /\ lx = LexIdle
  /\ calls = <<>>
  /\ lastCall = LexIdle
  /\ root = "empty"
  /\ on = {}
  /\ visitor = "all"
  /\ pc = "idle"
  /\ seedIdx = 0
  /\ stack = <<>>
  /\ delivered = <<>>
  /\ seen = {}
  /\ diags = <<>>
  /\ elemRef = [s \in AllSites |-> None]
  /\ refObj = [s \in AllSites |-> None]
  /\ expanded = <<>>
  /\ nbatch = 0

ParseModule ==
  /\ pm.out = None
  /\ pm' = [pm EXCEPT
              !.unnamedModuleDex = NextDex(pm.parsed, pm.defaultModuleName, @),
              !.out = Some(ParseModuleOf(pm.parsed, pm.defaultModuleName,
                                         pm.unnamedModuleDex))]
  /\ UNCHANGED <<gp, travVars, lexVars, mapVars, miscVars>>

NextModule == ParseModule

SpecModule == InitModule /\ [][NextModule]_vars

\* the element after element i, passing over the kinds in skipped: the least
\* later index whose kind is not skipped, 0 if there is none
Following(parsed, i, skipped) ==
  IF \E j \in (i + 1)..Len(parsed) : parsed[j].kind \notin skipped
  THEN CHOOSE j \in (i + 1)..Len(parsed) :
         /\ parsed[j].kind \notin skipped
         /\ \A k \in (i + 1)..(j - 1) : parsed[k].kind \in skipped
  ELSE 0

ExportsOf(m, i) == {k \in 1..Len(m.exports) : m.exports[k].elem = i}

LoggedAt(m, pos, msg) == {k \in 1..Len(m.log) : m.log[k] = SrcLogAt(pos, msg)}

\* C17: parseModule produces one export for each export directive whose next
\* element, importMerge elements passed over, is a fn or a struct, bound to
\* that element; for an export directive followed by another element or by
\* nothing it produces no export and logs '#export what?' at the
\* directive's start.
C17_ExportsBound ==
  pm.out # None =>
    /\ \A k \in 1..Len(pm.out[1].exports) :
          pm.out[1].parsed[pm.out[1].exports[k].elem].kind = "export"
    /\ \A i \in 1..Len(pm.out[1].parsed) :
          pm.out[1].parsed[i].kind = "export" =>
            IF /\ Following(pm.out[1].parsed, i, {"importMerge"}) # 0
               /\ pm.out[1].parsed[Following(pm.out[1].parsed, i, {"importMerge"})].kind
                    \in {"fn", "struct"}
            THEN /\ Cardinality(ExportsOf(pm.out[1], i)) = 1
                 /\ \A k \in ExportsOf(pm.out[1], i) :
                       pm.out[1].exports[k].ref
                         = Following(pm.out[1].parsed, i, {"importMerge"})
                 /\ LoggedAt(pm.out[1], pm.out[1].parsed[i].start,
                             "#export what? (#export a fn or struct)") = {}
            ELSE /\ ExportsOf(pm.out[1], i) = {}
                 /\ LoggedAt(pm.out[1], pm.out[1].parsed[i].start,
                             "#export what? (#export a fn or struct)") # {}

\* a module parsed from: export, importMerge, struct
C17_Witness ==
  /\ pm.out # None
  /\ Len(pm.out[1].parsed) = 3
  /\ pm.out[1].parsed[1].kind = "export"
  /\ pm.out[1].parsed[2].kind = "importMerge"
  /\ pm.out[1].parsed[3].kind = "struct"
  /\ pm.out[1].exports = << [elem |-> 1, ref |-> 3] >>

\* C18: an importMerge directive whose next element, importMerge and export
\* elements passed over, is not a struct is on no struct's importMerges
\* list, a message is logged at its start, and the module is returned all
\* the same with its elements.
C18_StrayMergeIgnored ==
  pm.out # None =>
    /\ \A i \in 1..Len(pm.out[1].parsed) :
          (/\ pm.out[1].parsed[i].kind = "importMerge"
           /\ \/ Following(pm.out[1].parsed, i, {"importMerge", "export"}) = 0
              \/ pm.out[1].parsed[Following(pm.out[1].parsed, i,
                                            {"importMerge", "export"})].kind # "struct")
            => /\ \A n \in 1..Len(pm.out[1].parsed) :
                     \A k \in 1..Len(pm.out[1].importMerges[n]) :
                        pm.out[1].importMerges[n][k] # i
               /\ LoggedAt(pm.out[1], pm.out[1].parsed[i].start,
                           "#extends not followed by a struct") # {}
    /\ pm.out[1].kind = "text"
    /\ \A i \in 1..Len(pm.out[1].parsed) :
          /\ pm.out[1].parsed[i].kind = "fn"
               <=> \E k \in 1..Len(pm.out[1].fns) : pm.out[1].fns[k] = i
          /\ pm.out[1].parsed[i].kind = "struct"
               <=> \E k \in 1..Len(pm.out[1].structs) : pm.out[1].structs[k] = i
          /\ pm.out[1].parsed[i].kind = "var"
               <=> \E k \in 1..Len(pm.out[1].vars) : pm.out[1].vars[k] = i

\* a module parsed from: importMerge, var, struct
C18_Witness ==
  /\ pm.out # None
  /\ Len(pm.out[1].parsed) = 3
  /\ pm.out[1].parsed[1].kind = "importMerge"
  /\ pm.out[1].parsed[2].kind = "var"
  /\ pm.out[1].parsed[3].kind = "struct"
  /\ pm.out[1].importMerges[3] = <<>>
  /\ pm.out[1].structs = <<3>>

\* how often directive i is on the importMerges list of element n
TimesMerged(m, n, i) ==
  Cardinality({k \in 1..Len(m.importMerges[n]) : m.importMerges[n][k] = i})

Tk(kind, text) == [kind |-> kind, text |-> text]

\* the token at position p, a token of kind "eof" at the end of the source
At(toks, p) == IF p < Len(toks) THEN toks[p + 1] ELSE Tk("eof", "")

\* a parser's result: null (the lexer position is restored), or a match with
\* the position reached, the tagged values and the messages of req
Failed == [ok |-> FALSE, pos |-> 0, refs |-> <<>>, errs |-> <<>>]

Matched(pos, refs, errs) == [ok |-> TRUE, pos |-> pos, refs |-> refs, errs |-> errs]

\* opt(p): the position after p, or the position before it
AfterOpt(r, p) == IF r.ok THEN r.pos ELSE p

\* wordNumArgs: a parenthesised list of words and numbers
WordNumArgs(toks, p) ==
  IF /\ At(toks, p).text = "("
     /\ \E q \in (p + 1)..(Len(toks) - 1) :
           /\ At(toks, q).text = ")"
           /\ \A k \in (p + 1)..(q - 1) :
                 At(toks, k).kind \in {"word", "digits"} \/ At(toks, k).text = ","
  THEN Matched((CHOOSE q \in (p + 1)..(Len(toks) - 1) :
                  /\ At(toks, q).text = ")"
                  /\ \A k \in (p + 1)..(q - 1) : At(toks, k).text # ")") + 1,
               <<>>, <<>>)
  ELSE Failed

RECURSIVE OptAttributes(_, _)
\* repeat(seq(kind(mainTokens.attr), opt(wordNumArgs))): the position reached
OptAttributes(toks, p) ==
  IF At(toks, p).kind = "attr"
  THEN OptAttributes(toks, AfterOpt(WordNumArgs(toks, p + 1), p + 1))
  ELSE p

RECURSIVE Template(_, _)
RECURSIVE TemplateRest(_, _)
\* req(">") at the end of a template whose first part and rest were parsed
TemplateClose(toks, first, rest) ==
  IF ~first.ok THEN Failed
  ELSE IF At(toks, rest.pos).text = ">"
       THEN Matched(rest.pos + 1, first.refs \o rest.refs, first.errs \o rest.errs)
       ELSE Matched(rest.pos, first.refs \o rest.refs,
                    Append(first.errs \o rest.errs,
                           [pos |-> rest.pos, msg |-> "expected >"]))

\* or(word.tag(possibleTypeRef), () => template), the first part of a template
TemplateFirst(toks, p) ==
  IF At(toks, p).kind = "word" THEN Matched(p + 1, <<At(toks, p).text>>, <<>>)
  ELSE Template(toks, p)

\* seq("<", or(word.tag(possibleTypeRef), () => template),
\*     repeat(or(() => template, anyNot(">"))), req(">"))
Template(toks, p) ==
  IF At(toks, p).text # "<" THEN Failed
  ELSE TemplateClose(toks, TemplateFirst(toks, p + 1),
                     TemplateRest(toks, TemplateFirst(toks, p + 1).pos))

\* variant of the rest of a template in which every identifier is tagged
TemplateRestStepTagging(toks, inner, p) ==
  IF inner.ok
  THEN [TemplateRest(toks, inner.pos)
          EXCEPT !.refs = inner.refs \o @, !.errs = inner.errs \o @]
  ELSE IF p < Len(toks) /\ At(toks, p).text # ">"
       THEN [TemplateRest(toks, p + 1)
               EXCEPT !.refs = (IF At(toks, p).kind = "word"
                                THEN <<At(toks, p).text>> ELSE <<>>) \o @]
  ELSE Matched(p, <<>>, <<>>)

\* one round of repeat(or(() => template, anyNot(">")))
TemplateRestStep(toks, inner, p) ==
  IF inner.ok
  THEN [TemplateRest(toks, inner.pos)
          EXCEPT !.refs = inner.refs \o @, !.errs = inner.errs \o @]
  ELSE IF p < Len(toks) /\ At(toks, p).text # ">" THEN TemplateRest(toks, p + 1)
  ELSE Matched(p, <<>>, <<>>)

TemplateRest(toks, p) == TemplateRestStep(toks, Template(toks, p), p)

\* seq(tokens(identTokens, longIdent.tag(possibleTypeRef)), opt(template)),
\* mapped to one typeRef per tagged name
TypeSpecifier(toks, p) ==
  IF At(toks, p).kind # "word" THEN Failed
  ELSE IF Template(toks, p + 1).ok
       THEN [Template(toks, p + 1) EXCEPT !.refs = <<At(toks, p).text>> \o @]
       ELSE Matched(p + 1, <<At(toks, p).text>>, <<>>)

\* variant of the keywords of globalVar with let among them
GlobalVarKeywordsWithLet == {"const", "override", "var", "let"}

\* or("const", "override", "var")
GlobalVarKeywords == {"const", "override", "var"}

\* req(anyThrough(";")) and the map that pushes the var element
GlobalVarEnd(toks, name, typed) ==
  IF \E q \in typed.pos..(Len(toks) - 1) : At(toks, q).text = ";"
  THEN [ok |-> TRUE,
        pos |-> (CHOOSE q \in typed.pos..(Len(toks) - 1) :
                   /\ At(toks, q).text = ";"
                   /\ \A k \in typed.pos..(q - 1) : At(toks, k).text # ";") + 1,
        state |-> << [kind |-> "var", name |-> name, typeRefs |-> typed.refs] >>,
        errs |-> typed.errs]
  ELSE [ok |-> TRUE, pos |-> typed.pos,
        state |-> << [kind |-> "var", name |-> name, typeRefs |-> typed.refs] >>,
        errs |-> Append(typed.errs, [pos |-> typed.pos, msg |-> "expected ;"])]

\* opt(seq(":", req(typeSpecifier.tag("typeRefs"))))
GlobalVarTyped(toks, name, p) ==
  IF At(toks, p).text # ":" THEN GlobalVarEnd(toks, name, Matched(p, <<>>, <<>>))
  ELSE IF TypeSpecifier(toks, p + 1).ok
       THEN GlobalVarEnd(toks, name, TypeSpecifier(toks, p + 1))
       ELSE GlobalVarEnd(toks, name,
              Matched(p + 1, <<>>, <<[pos |-> p + 1, msg |-> "expected type"]>>))

NoMatch == [ok |-> FALSE, pos |-> 0, state |-> <<>>, errs |-> <<>>]

\* word.tag("name") at position p and the rest of the declaration
GlobalVarNamed(toks, p) ==
  IF At(toks, p).kind = "word" THEN GlobalVarTyped(toks, At(toks, p).text, p + 1)
  ELSE NoMatch

\* globalVar at the start of the source: optAttributes,
\* or("const", "override", "var"), opt(template), and the rest
GlobalVar(toks) ==
  IF At(toks, OptAttributes(toks, 0)).text \in GlobalVarKeywords
  THEN GlobalVarNamed(toks, AfterOpt(Template(toks, OptAttributes(toks, 0) + 1),
                                     OptAttributes(toks, 0) + 1))
  ELSE NoMatch

\* nesting depth of the templates in the types handed to the parsers
MaxNest == 2

RECURSIVE TypeShapes(_)
\* the type specifiers of nesting depth d at most: an identifier alone, or
\* with a template of one or two arguments, the first one a type, the
\* second one a type or a number
TypeShapes(d) ==
  IF d = 0 THEN {[kind |-> "type", args |-> <<>>]}
  ELSE {[kind |-> "type", args |-> <<>>]}
         \cup {[kind |-> "type", args |-> <<f>>] : f \in TypeShapes(d - 1)}
         \cup {[kind |-> "type", args |-> <<f, g>>] :
                 f \in TypeShapes(d - 1),
                 g \in TypeShapes(d - 1) \cup {[kind |-> "digits", args |-> <<>>]}}

RECURSIVE ShapeToks(_)
\* the tokens of a type specifier, every identifier written id
ShapeToks(s) ==
  IF s.kind = "digits" THEN <<Tk("digits", "4")>>
  ELSE <<Tk("word", "id")>>
         \o (IF s.args = <<>> THEN <<>>
             ELSE <<Tk("symbol", "<")>> \o ShapeToks(s.args[1])
                    \o (IF Len(s.args) = 2
                        THEN <<Tk("symbol", ",")>> \o ShapeToks(s.args[2])
                        ELSE <<>>)
                    \o <<Tk("symbol", ">")>>)

\* identifiers, one per token position
Idents ==
  <<"n1", "n2", "n3", "n4", "n5", "n6", "n7", "n8", "n9", "n10", "n11", "n12",
    "n13", "n14", "n15", "n16", "n17", "n18", "n19", "n20", "n21", "n22", "n23",
    "n24", "n25", "n26", "n27", "n28", "n29", "n30", "n31", "n32">>

\* the tokens of a type specifier, every identifier named after its position
NamedToks(toks) ==
  [i \in 1..Len(toks) |->
     IF toks[i].kind = "word" THEN Tk("word", Idents[((i - 1) % Len(Idents)) + 1])
     ELSE toks[i]]

TypeToks(s) == CHOOSE named \in {NamedToks(toks) : toks \in {ShapeToks(s)}} : TRUE

\* the module-scope declarations handed to the parsers: attributes, keyword,
\* template, type, and either nothing more or an initializer and the start
\* of the next declaration
Decls ==
  {[attrs |-> a, keyword |-> k, template |-> t, type |-> ty,
    init |-> r.init, tail |-> r.tail] :
     a \in {<<>>, <<Tk("attr", "@group")>>,
            <<Tk("attr", "@group"), Tk("symbol", "("), Tk("digits", "0"),
              Tk("symbol", ")")>>},
     k \in {"const", "override", "var", "let"},
     t \in {<<>>, <<Tk("symbol", "<"), Tk("word", "uniform"), Tk("symbol", ">")>>},
     ty \in {None} \cup {Some(s) : s \in TypeShapes(MaxNest)},
     r \in {[init |-> <<>>, tail |-> <<>>],
            [init |-> <<Tk("symbol", "="), Tk("digits", "1")>>,
             tail |-> <<Tk("word", "fn")>>]}}

\* the tokens of the type of the declaration after its ":"
DeclType(d) == IF d.type = None THEN <<>> ELSE TypeToks(d.type[1])

\* the tokens of the declaration named x
TokensOf(d) ==
  d.attrs \o <<Tk("word", d.keyword)>> \o d.template \o <<Tk("word", "x")>>
    \o (IF d.type = None THEN <<>> ELSE <<Tk("symbol", ":")>> \o DeclType(d))
    \o d.init \o <<Tk("symbol", ";")>> \o d.tail

InitGrammar ==
  /\ gp \in {[decl |-> d, toks |-> TokensOf(d), type |-> DeclType(d),
               parser |-> "none", out |-> None] : d \in Decls}
  /\ pm = ParseIdle
  /\ sl = ParseIdle
  /\ reg = ParseIdle
  /\ sm = MapIdle
  /\ lx = LexIdle
  /\ calls = <<>>
  /\ lastCall = LexIdle
  /\ root = "empty"
  /\ on = {}
  /\ visitor = "all"
  /\ pc = "idle"
  /\ seedIdx = 0
  /\ stack = <<>>
  /\ delivered = <<>>
  /\ seen = {}
  /\ diags = <<>>
  /\ elemRef = [s \in AllSites |-> None]
  /\ refObj = [s \in AllSites |-> None]
  /\ expanded = <<>>
  /\ nbatch = 0

\* globalVar.parse on the tokens of the declaration
ParseGlobalVar ==
  /\ gp.out = None
  /\ gp' = [gp EXCEPT !.parser = "globalVar",
                      !.out = Some(GlobalVar(gp.toks))]
  /\ UNCHANGED <<pm, travVars, lexVars, mapVars, miscVars>>

\* typeSpecifier.parse on the tokens of the type of the declaration
ParseTypeSpecifier ==
  /\ gp.out = None
  /\ gp.decl.type # None
  /\ gp' = [gp EXCEPT !.parser = "typeSpecifier",
                      !.out = Some(TypeSpecifier(gp.type, 0))]
  /\ UNCHANGED <<pm, travVars, lexVars, mapVars, miscVars>>

NextGrammar == ParseGlobalVar \/ ParseTypeSpecifier

SpecGrammar == InitGrammar /\ [][NextGrammar]_vars

\* the identifiers of a type specifier that are type references: the leading
\* one and the first one of every template level, that is the one after a "<"
FirstIdents(toks) ==
  LET idx == SelectSeq([i \in 1..Len(toks) |-> i],
                       LAMBDA i : /\ toks[i].kind = "word"
                                  /\ (i = 1 \/ toks[i - 1].text = "<"))
  IN [k \in 1..Len(idx) |-> toks[idx[k]].text]

\* the declaration was parsed into one var element with its name and the
\* type references of its type specifier, up to and including its ";"
OneVarElem(g, out) ==
  /\ out.ok
  /\ out.state = << [kind |-> "var", name |-> "x", typeRefs |-> FirstIdents(g.type)] >>
  /\ out.pos = Len(g.toks) - Len(g.decl.tail)
  /\ out.errs = <<>>

\* C19 as stated: a module-scope declaration introduced by const, var,
\* override or let is parsed into exactly one var element with the declared
\* name and the type references of its type specifier.
C19_AnyKeyword ==
  gp.parser = "globalVar" => OneVarElem(gp, gp.out[1])

\* C19: a module-scope declaration introduced by const, override or var is
\* parsed into exactly one var element with the declared name and the type
\* references of its type specifier; one introduced by let is not matched
\* by globalVar: no element, and no token consumed.
C19_ConstOverrideVar ==
  gp.parser = "globalVar" =>
    IF gp.decl.keyword = "let"
    THEN gp.out[1] = NoMatch
    ELSE OneVarElem(gp, gp.out[1])

\* '@group(0) var<uniform> x: n1<n3> = 1; fn' was parsed
C19_Witness ==
  /\ gp.parser = "globalVar"
  /\ gp.decl.keyword = "var"
  /\ Len(gp.decl.attrs) = 4
  /\ gp.decl.template # <<>>
  /\ gp.decl.type # None
  /\ gp.out[1].state # <<>>
  /\ gp.out[1].state[1].typeRefs = <<"n1", "n3">>
  /\ gp.decl.init # <<>>
  /\ gp.decl.tail # <<>>

\* C23: typeSpecifier returns one typeRef for the leading identifier and one
\* for the first identifier of every nested template level, in source
\* order; the later arguments of a level give no typeRef.
C23_FirstIdentPerLevel ==
  gp.parser = "typeSpecifier" =>
    /\ gp.out[1].ok
    /\ gp.out[1].refs = FirstIdents(gp.type)
    /\ gp.out[1].pos = Len(gp.type)
    /\ gp.out[1].errs = <<>>

\* n1<n3<n5,4>> was parsed, as vec2<array<MyStruct,4>> is
C23_Witness ==
  /\ gp.parser = "typeSpecifier"
  /\ Len(gp.type) = 9
  /\ gp.type[7].text = "4"
  /\ gp.out[1].refs = <<"n1", "n3", "n5">>

(***************************************************************************)
(* srcLine: the line of a source that holds a position.  A source is a     *)
(* sequence of characters, "nl" the newline; positions and array indices   *)
(* count from 0 as in the code.                                            *)
(***************************************************************************)
MaxText == 3

Texts == UNION {[1..n -> {"a", "nl"}] : n \in 0..MaxText}

\* [...src.matchAll(/\n/g)].map(m => m.index + 1), after starts.unshift(0)
LineStarts(src) ==
  <<0>> \o SelectSeq([i \in 1..Len(src) |-> i], LAMBDA i : src[i] = "nl")

\* startCache.get(src)
Cached(cache, src) == \E c \in cache : c.src = src

\* getStarts: the cached array if there is one, a new one otherwise
GetStarts(cache, src) ==
  IF Cached(cache, src) THEN (CHOOSE c \in cache : c.src = src).starts
  ELSE LineStarts(src)

\* startCache.set(src, starts)
CacheSet(cache, src) ==
  IF Cached(cache, src) THEN cache
  ELSE cache \cup {[src |-> src, starts |-> LineStarts(src)]}

RECURSIVE SearchLine(_, _, _, _)
\* the binary search for the start, end that surround pos
SearchLine(starts, pos, start, end) ==
  IF start + 1 < end
  THEN IF pos >= starts[((start + end) \div 2) + 1]
       THEN SearchLine(starts, pos, (start + end) \div 2, end)
       ELSE SearchLine(starts, pos, start, (start + end) \div 2)
  ELSE start

\* variant of the search without the short circuit for the last line
FirstLineNoShortCut(starts, pos) == 0

\* short circuit search if pos is after last line start
FirstLine(starts, pos) ==
  IF pos >= starts[Len(starts)] THEN Len(starts) - 1 ELSE 0

\* src.slice(starts[start], starts[start + 1] || src.length)
LineNl(src, starts, start) ==
  SubSeq(src, starts[start + 1] + 1,
         IF start + 2 <= Len(starts) /\ starts[start + 2] # 0
         THEN starts[start + 2] ELSE Len(src))

\* return line without trailing newline
WithoutNl(lineNl) ==
  IF lineNl # <<>> /\ lineNl[Len(lineNl)] = "nl"
  THEN SubSeq(lineNl, 1, Len(lineNl) - 1) ELSE lineNl

SrcLineAt(src, starts, pos, start) ==
  [line |-> WithoutNl(LineNl(src, starts, start)),
   linePos |-> pos - starts[start + 1], lineNum |-> start + 1]

\* srcLine(src, pos) with the line starts that getStarts returned
SrcLineOf(src, starts, pos) ==
  SrcLineAt(src, starts, pos,
            SearchLine(starts, pos, FirstLine(starts, pos), Len(starts) - 1))

\* the process logs about two sources; the cache starts empty
InitLine ==
  /\ sl \in [srcs : Texts \X Texts, cache : {{}}, last : {None}]
  /\ reg = ParseIdle
  /\ pm = ParseIdle
  /\ gp = ParseIdle
  /\ sm = MapIdle
  /\ lx = LexIdle
  /\ calls = <<>>
  /\ lastCall = LexIdle
  /\ root = "empty"
  /\ on = {}
  /\ visitor = "all"
  /\ pc = "idle"
  /\ seedIdx = 0
  /\ stack = <<>>
  /\ delivered = <<>>
  /\ seen = {}
  /\ diags = <<>>
  /\ elemRef = [s \in AllSites |-> None]
  /\ refObj = [s \in AllSites |-> None]
  /\ expanded = <<>>
  /\ nbatch = 0

\* one call srcLine(src, pos) with 0 <= pos <= src.length
SrcLine ==
  /\ sl # ParseIdle
  /\ \E k \in 1..2 : \E pos \in 0..Len(sl.srcs[k]) :
        \E starts \in {GetStarts(sl.cache, sl.srcs[k])} :
           sl' = [sl EXCEPT !.cache = CacheSet(@, sl.srcs[k]),
                            !.last = Some([src |-> sl.srcs[k], pos |-> pos,
                                           hit |-> Cached(sl.cache, sl.srcs[k]),
                                           out |-> SrcLineOf(sl.srcs[k], starts, pos)])]
  /\ UNCHANGED <<reg, travVars, lexVars, mapVars, parseVars>>

NextLine == SrcLine

SpecLine == InitLine /\ [][NextLine]_vars

\* the newlines of src before position pos, as array indices
NewlinesBefore(src, pos) == {i \in 0..(pos - 1) : src[i + 1] = "nl"}

\* the index of the first character of the line that holds pos
LineStartOf(src, pos) ==
  IF NewlinesBefore(src, pos) = {} THEN 0
  ELSE (CHOOSE i \in NewlinesBefore(src, pos) :
          \A j \in NewlinesBefore(src, pos) : j <= i) + 1

\* the index of the newline that ends the line that holds pos, or the length
LineEndOf(src, pos) ==
  IF \E i \in pos..(Len(src) - 1) : src[i + 1] = "nl"
  THEN CHOOSE i \in pos..(Len(src) - 1) :
         /\ src[i + 1] = "nl"
         /\ \A j \in pos..(i - 1) : src[j + 1] # "nl"
  ELSE Len(src)

\* C24: srcLine returns lineNum = 1 + the number of newlines before pos,
\* linePos = pos - the index of the first character of that line, and the
\* text of that line without its newline, whether or not the line-start
\* cache already held the source.
C24_SrcLine ==
  sl # ParseIdle =>
    (sl.last # None =>
       /\ sl.last[1].out.lineNum
            = 1 + Cardinality(NewlinesBefore(sl.last[1].src, sl.last[1].pos))
       /\ sl.last[1].out.linePos
            = sl.last[1].pos - LineStartOf(sl.last[1].src, sl.last[1].pos)
       /\ sl.last[1].out.line
            = SubSeq(sl.last[1].src, LineStartOf(sl.last[1].src, sl.last[1].pos) + 1,
                     LineEndOf(sl.last[1].src, sl.last[1].pos)))

\* srcLine answered from the cache for a position in the second of three
\* lines
C24_Witness ==
  /\ sl # ParseIdle
  /\ sl.last # None
  /\ sl.last[1].hit
  /\ sl.last[1].src = <<"a", "nl", "nl">>
  /\ sl.last[1].pos = 2
  /\ sl.last[1].out.lineNum = 2

(***************************************************************************)
(* ModuleRegistryOld: export name -> the exports registered under it       *)
(***************************************************************************)
MaxRegs == 3

ExportNames == {"f", "g"}

ModuleNames == {"m1", "m2"}

\* a parsed text module: a name and its exports, each name once
ParsedModules ==
  [name : ModuleNames, exports : {<<>>, <<"f">>, <<"f", "g">>}]

\* `funModule${unnamedCodeDex++}`
FunModuleName(dex) == "funModule" \o ToString(dex)

\* { module, export, kind }; id tells the module objects apart
ModuleExport(id, moduleName, exportName, kind) ==
  [module |-> [id |-> id, name |-> moduleName], export |-> exportName,
   kind |-> kind]

\* Map.get is undefined where the list is empty
AddModuleExport(exports, moduleExport) ==
  [exports EXCEPT ![moduleExport.export] = Append(@, moduleExport)]

RECURSIVE AddTextModule(_, _, _, _)
\* module.exports.forEach(e => addModuleExport({ module, export: e, kind }))
AddTextModule(exports, id, m, i) ==
  IF i > Len(m.exports) THEN exports
  ELSE AddTextModule(AddModuleExport(exports,
                                     ModuleExport(id, m.name, m.exports[i], "text")),
                     id, m, i + 1)

\* exports.find(e => e.module.name === moduleName)
WithModuleName(exports, moduleName) ==
  IF FindIndex([i \in 1..Len(exports) |-> exports[i].module.name = moduleName]) = 0
  THEN None
  ELSE Some(exports[FindIndex([i \in 1..Len(exports) |->
                                 exports[i].module.name = moduleName])])

FirstOfSeveral(exports) == Some(exports[1])

\* exports.length === 1 ? exports[0] : undefined, after a warning
WithoutModuleName(exports) ==
  IF Len(exports) = 1 THEN Some(exports[1]) ELSE None

GetModuleExport(exports, moduleName) ==
  IF exports = <<>> THEN None
  ELSE IF moduleName # None THEN WithModuleName(exports, moduleName[1])
  ELSE WithoutModuleName(exports)

\* console.warn(`Multiple modules export ...`)
Warned(exports, moduleName) ==
  exports # <<>> /\ moduleName = None /\ Len(exports) # 1

\* new ModuleRegistryOld()
InitRegistry ==
  /\ reg = [exports |-> [n \in ExportNames |-> <<>>], unnamedCodeDex |-> 0,
            modules |-> 0, last |-> None]
  /\ sl = ParseIdle
  /\ pm = ParseIdle
  /\ gp = ParseIdle
  /\ sm = MapIdle
  /\ lx = LexIdle
  /\ calls = <<>>
  /\ lastCall = LexIdle
  /\ root = "empty"
  /\ on = {}
  /\ visitor = "all"
  /\ pc = "idle"
  /\ seedIdx = 0
  /\ stack = <<>>
  /\ delivered = <<>>
  /\ seen = {}
  /\ diags = <<>>
  /\ elemRef = [s \in AllSites |-> None]
  /\ refObj = [s \in AllSites |-> None]
  /\ expanded = <<>>
  /\ nbatch = 0

\* registerOneModule(src, moduleName), m the module parseModuleOld returns
RegisterOneModule ==
  /\ reg # ParseIdle
  /\ reg.modules < MaxRegs
  /\ \E m \in ParsedModules :
        reg' = [reg EXCEPT !.exports = AddTextModule(@, reg.modules + 1, m, 1),
                           !.modules = @ + 1,
                           !.last = None]
  /\ UNCHANGED <<sl, travVars, lexVars, mapVars, parseVars>>

\* registerGenerator(exportName, fn, params, moduleName)
RegisterGenerator ==
  /\ reg # ParseIdle
  /\ reg.modules < MaxRegs
  /\ \E exportName \in ExportNames : \E moduleName \in ModuleNames :
        reg' = [reg EXCEPT !.exports =
                             AddModuleExport(@, ModuleExport(reg.modules + 1, moduleName,
                                                             exportName, "function")),
                           !.modules = @ + 1,
                           !.last = None]
  /\ UNCHANGED <<sl, travVars, lexVars, mapVars, parseVars>>

\* registerGenerator(exportName, fn, params): the module gets a fresh name
RegisterUnnamedGenerator ==
  /\ reg # ParseIdle
  /\ reg.modules < MaxRegs
  /\ \E exportName \in ExportNames :
        reg' = [reg EXCEPT !.exports =
                             AddModuleExport(@, ModuleExport(reg.modules + 1,
                                                             FunModuleName(reg.unnamedCodeDex),
                                                             exportName, "function")),
                           !.unnamedCodeDex = @ + 1,
                           !.modules = @ + 1,
                           !.last = None]
  /\ UNCHANGED <<sl, travVars, lexVars, mapVars, parseVars>>

\* getModuleExport(exportName, moduleName) and getModuleExport(exportName)
DoGetModuleExport ==
  /\ reg # ParseIdle
  /\ \E exportName \in ExportNames :
     \E moduleName \in {None} \cup {Some(n) : n \in ModuleNames \cup {FunModuleName(0)}} :
        reg' = [reg EXCEPT !.last =
                  Some([exportName |-> exportName, moduleName |-> moduleName,
                        out |-> GetModuleExport(reg.exports[exportName], moduleName),
                        warned |-> Warned(reg.exports[exportName], moduleName)])]
  /\ UNCHANGED <<sl, travVars, lexVars, mapVars, parseVars>>

NextRegistry ==
  RegisterOneModule \/ RegisterGenerator \/ RegisterUnnamedGenerator
    \/ DoGetModuleExport

SpecRegistry == InitRegistry /\ [][NextRegistry]_vars

\* the exports registered under a name, over all export names
Registered ==
  UNION {{reg.exports[n][i] : i \in 1..Len(reg.exports[n])} : n \in ExportNames}

\* the registered exports named exportName of the modules named moduleName
ExportsNamed(exportName, moduleName) ==
  {e \in Registered : e.export = exportName /\ e.module.name = moduleName}

\* the registered modules that export exportName
ExportersOf(exportName) ==
  {e.module.id : e \in {x \in Registered : x.export = exportName}}

\* C30: after any registrations getModuleExport(name, moduleName) returns an
\* export named name of module moduleName, undefined if there is none;
\* getModuleExport(name) returns the export if exactly one registered module
\* exports name, and undefined if none or several do.
C30_GetModuleExport ==
  (reg # ParseIdle /\ reg.last # None) =>
    IF reg.last[1].moduleName # None
    THEN IF ExportsNamed(reg.last[1].exportName, reg.last[1].moduleName[1]) = {}
         THEN reg.last[1].out = None
         ELSE /\ reg.last[1].out # None
              /\ reg.last[1].out[1]
                   \in ExportsNamed(reg.last[1].exportName, reg.last[1].moduleName[1])
    ELSE IF Cardinality(ExportersOf(reg.last[1].exportName)) = 1
         THEN /\ reg.last[1].out # None
              /\ reg.last[1].out[1] \in Registered
              /\ reg.last[1].out[1].export = reg.last[1].exportName
         ELSE reg.last[1].out = None

\* three modules registered, two of them export f: getModuleExport("f")
\* returns undefined and getModuleExport("g") the one export of g
C30_Witness ==
  /\ reg # ParseIdle
  /\ reg.modules = 3
  /\ Cardinality(ExportersOf("f")) = 2
  /\ Cardinality(ExportersOf("g")) = 1
  /\ reg.last # None
  /\ reg.last[1].exportName = "g"
  /\ reg.last[1].moduleName = None
  /\ reg.last[1].out # None
  /\ reg.last[1].out[1].kind = "text"

=============================================================================
